---------------------------- MODULE Spec2Model ----------------------------
(***************************************************************************)
(* SoapyVOLKConverters: a SoapySDR module whose static ConverterRegistry   *)
(* objects register VOLK-backed sample-format converters at priority       *)
(* VECTORIZED, and the loopback test program that drives them.             *)
(*                                                                         *)
(* The repository holds several revisions of the module's translation      *)
(* unit; the variable "unit" says which one was built into the module that *)
(* the process loads.                                                      *)
(*                                                                         *)
(* Numbers.  Integer samples are TLA+ integers.  A floating-point sample   *)
(* is a record [w, m, e] standing for m * 2^e held in a float (w = 32, 24  *)
(* significant bits) or a double (w = 64); m is odd or the value is zero,  *)
(* so equal values are equal records.  Every double of the model has a     *)
(* significand below 2^31, which a double holds exactly.                   *)
(*                                                                         *)
(* The arithmetic is written as chains of small operators that hand each   *)
(* intermediate value on as an argument, so that no value is computed      *)
(* twice.                                                                  *)
(***************************************************************************)
EXTENDS Integers, Sequences, FiniteSets, TLC

\* Longest source buffer, in elements (complex elements for complex formats).
MaxLen == 2

\* The most messages the log is followed for.
MaxLog == 2

(***************************************************************************)
(* IEEE-754 arithmetic, round to nearest, ties to even.                    *)
(***************************************************************************)
\* Significant bits of a float, and half of them.
FloatBits == 24
HalfBits == 12
\* Value bits of the model's integers.
IntBits == 31

INT8_MIN == -128
INT8_MAX == 127
INT16_MIN == -32768
INT16_MAX == 32767
INT32_MAX == 2147483647
INT32_MIN == -INT32_MAX - 1

Abs(n) == IF n < 0 THEN -n ELSE n
Sign(n) == IF n < 0 THEN -1 ELSE 1

RECURSIVE BitLen(_)
BitLen(n) == IF n = 0 THEN 0 ELSE 1 + BitLen(n \div 2)

RECURSIVE TrailingZeros(_)
TrailingZeros(n) == IF n = 0 \/ n % 2 = 1 THEN 0 ELSE 1 + TrailingZeros(n \div 2)

CanonZ(w, m, e, z) == [w |-> w, m |-> m \div (2^z), e |-> e + z]

\* The record of the value m * 2^e in a format of width w, m already short
\* enough for the format.
Canon(w, m, e) ==
    IF m = 0 THEN [w |-> w, m |-> 0, e |-> 0]
    ELSE CanonZ(w, m, e, TrailingZeros(Abs(m)))

\* q + r / (2 * half) rounded to the nearest integer, ties to even.
RoundUp(q, r, half) ==
    IF r > half \/ (r = half /\ q % 2 = 1) THEN q + 1 ELSE q

\* a / 2^k for a >= 0, k >= 0, rounded to the nearest integer, ties to even.
RoundShift(a, k) ==
    IF k = 0 THEN a ELSE RoundUp(a \div (2^k), a % (2^k), 2^(k - 1))

\* m * 2^e, m of L bits, rounded to a float.
RoundBits(m, e, L) ==
    IF L <= FloatBits THEN Canon(32, m, e)
    ELSE Canon(32, Sign(m) * RoundShift(Abs(m), L - FloatBits),
               e + (L - FloatBits))

\* m * 2^e rounded to a float.
RoundF32(m, e) == RoundBits(m, e, BitLen(Abs(m)))

\* (hi * 2^24 + lo) * 2^e rounded to a float, hi > 0 of L bits, lo < 2^24.
MulRound(hi, lo, e, L) ==
    Canon(32, RoundUp(hi * (2^(FloatBits - L)) + (lo \div (2^L)),
                      lo % (2^L), 2^(L - 1)),
          e + L)

MulHiLo(hi, lo, e) == MulRound(hi, lo, e, BitLen(hi))

MulCarry(hh, t, e) ==
    MulHiLo(hh + (t \div (2^FloatBits)), t % (2^FloatBits), e)

MulParts(ah, al, bh, bl, mid, e) ==
    MulCarry(ah * bh + (mid \div (2^HalfBits)),
             (mid % (2^HalfBits)) * (2^HalfBits) + al * bl, e)

MulHalves(ah, al, bh, bl, e) == MulParts(ah, al, bh, bl, ah * bl + al * bh, e)

\* The float product a * b * 2^e of two significands a, b < 2^24 whose exact
\* product, of 30 bits or more, does not fit an integer of the model: the
\* product is built from 12-bit halves as hi * 2^24 + lo and rounded once.
MulWide(a, b, e) ==
    MulHalves(a \div (2^HalfBits), a % (2^HalfBits),
              b \div (2^HalfBits), b % (2^HalfBits), e)

Neg(x) == [x EXCEPT !.m = -x.m]

MulSigned(s, a, b, e) ==
    IF BitLen(a) + BitLen(b) < IntBits THEN RoundF32(s * a * b, e)
    ELSE IF s < 0 THEN Neg(MulWide(a, b, e)) ELSE MulWide(a, b, e)

\* x * y for floats x and y, rounded to a float.
MulF32(x, y) ==
    MulSigned(Sign(x.m) * Sign(y.m), Abs(x.m), Abs(y.m), x.e + y.e)

\* Long division: the first "bits" quotient bits of rem / d (rem < d), then a
\* sticky bit saying whether anything is left.
RECURSIVE DivBits(_, _, _, _)
DivBits(rem, d, bits, acc) ==
    IF bits = 0 THEN <<acc, rem # 0>>
    ELSE IF 2 * rem >= d THEN DivBits(2 * rem - d, d, bits - 1, 2 * acc + 1)
    ELSE DivBits(2 * rem, d, bits - 1, 2 * acc)

\* d = <<25 quotient bits, sticky>>: 24 bits, a guard bit and the sticky bit
\* round to the 24-bit significand of 1 / (s * 2^e).
RecipRound(s, e, L, d) ==
    Canon(32,
          s * (IF d[1] % 2 = 1 /\ (d[2] \/ (d[1] \div 2) % 2 = 1)
               THEN (d[1] \div 2) + 1 ELSE d[1] \div 2),
          -(FloatBits - 1) - L - e)

RecipBits(s, a, e, L) ==
    RecipRound(s, e, L, DivBits((2^(L - 1)) * 2 - a, a, FloatBits, 1))

\* 1 / (m * 2^e) rounded to a float, m # 0.  For |m| = 1 it is exact;
\* otherwise 1/|m| = 2^-L * (2^L / |m|) with 2^(L-1) < |m| < 2^L, and
\* 2^L / |m| in (1, 2) is divided out.
RecipF32(x) ==
    IF Abs(x.m) = 1 THEN Canon(32, x.m, -x.e)
    ELSE RecipBits(Sign(x.m), Abs(x.m), x.e, BitLen(Abs(x.m)))

\* static_cast<float>(v) of an integer v.
IntToF32(v) == RoundF32(v, 0)

\* Whether |x| >= 2^31, so that x lies outside every integer format.
Huge(x) == x.m # 0 /\ BitLen(Abs(x.m)) + x.e > IntBits

\* rintf(x) as an integer, for |x| < 2^31: the nearest integer, ties to even.
Rint(x) ==
    IF x.e >= 0 THEN x.m * (2^x.e)
    ELSE IF -x.e > FloatBits + 1 THEN 0
    ELSE Sign(x.m) * RoundShift(Abs(x.m), -x.e)

Clip(r, lo, hi) == IF r > hi THEN hi ELSE IF r < lo THEN lo ELSE r

\* rintf(x) clipped to [lo, hi].
Saturate(x, lo, hi) ==
    IF Huge(x) THEN (IF x.m < 0 THEN lo ELSE hi) ELSE Clip(Rint(x), lo, hi)

(***************************************************************************)
(* The converter's double "scalar" argument.  A scalar is m * 2^e, or      *)
(* (inv) the double nearest to 1 / (m * 2^e); a power of two is never kept *)
(* in the inv form.                                                        *)
(***************************************************************************)
Scalar(m, e, inv) ==
    IF inv /\ Abs(m) = 1 THEN [m |-> m, e |-> -e, inv |-> FALSE]
    ELSE [m |-> m, e |-> e, inv |-> inv]

\* The C++ expression 1.0 / scalar, in double.  For the scalars of ScalarSet
\* the double quotient 1.0 / (1.0 / x) is x again.
Reciprocal(scalar) == Scalar(scalar.m, scalar.e, ~scalar.inv)

\* static_cast<float>(scalar).
ToFloat(scalar) ==
    IF scalar.inv THEN RecipF32(scalar) ELSE RoundF32(scalar.m, scalar.e)


(***************************************************************************)
(* Element counts.  A count of type size_t or unsigned int is h * 2^31 + l *)
(* with 0 <= l < 2^31, so that counts beyond the 32 bits of an unsigned    *)
(* int can be told from their truncations.  size_t has 64 bits: h stays    *)
(* far below 2^33 and the size_t product numElems * 2 never wraps.         *)
(***************************************************************************)
HalfRange == 1073741824

SizeT(h, l) == [h |-> h, l |-> l]

\* The size_t product n * 2.
Times2(n) ==
    IF n.l >= HalfRange THEN SizeT(2 * n.h + 1, 2 * (n.l - HalfRange))
    ELSE SizeT(2 * n.h, 2 * n.l)

\* static_cast<unsigned int>(n): n modulo 2^32.
UnsignedInt(n) == SizeT(n.h % 2, n.l)

\* The count n as a number of loop iterations (for the counts below 2^31
\* that a buffer of the model can hold).
NumPoints(n) == IF n.h = 0 THEN n.l ELSE n.h * (2 * HalfRange) + n.l
(***************************************************************************)
(* Buffers.  A buffer is its elements (data) together with the log of the  *)
(* kernel invocations that produced it (kcalls), so that what a converter  *)
(* hands to which kernel can be read off its result.  A complex buffer is  *)
(* held as its interleaved components (re, im, re, im, ...).               *)
(***************************************************************************)
\* One kernel invocation: the kernel, its scalar argument (none for a
\* kernel that takes none) and its element count, an unsigned int.
KCall(k, scalar, n) == [k |-> k, scalar |-> scalar, count |-> n]

\* A buffer the caller filled.
Buffer(data) == [data |-> data, kcalls |-> <<>>]

\* The buffer a kernel wrote from src.
Written(src, data, kcall) == [data |-> data, kcalls |-> Append(src.kcalls, kcall)]

(***************************************************************************)
(* The VOLK kernels the module calls, by their documented contract.  Each  *)
(* reads the first n elements of src and gives the n elements it writes.   *)
(***************************************************************************)
volk_8i_convert_16i(src, n) ==
    Written(src, [i \in 1..NumPoints(n) |-> src.data[i] * 256],
            KCall("volk_8i_convert_16i", <<>>, n))

volk_16i_convert_8i(src, n) ==
    Written(src, [i \in 1..NumPoints(n) |-> src.data[i] \div 256],
            KCall("volk_16i_convert_8i", <<>>, n))

\* The three integer-to-float kernels divide by their scalar: they multiply
\* by iScalar = 1.0 / scalar.
ScaleDown(v, iScalar) == MulF32(IntToF32(v), iScalar)

volk_8i_s32f_convert_32f(src, scalar, n) ==
    Written(src, [i \in 1..NumPoints(n) |-> ScaleDown(src.data[i], RecipF32(scalar))],
            KCall("volk_8i_s32f_convert_32f", <<scalar>>, n))

volk_16i_s32f_convert_32f(src, scalar, n) ==
    Written(src, [i \in 1..NumPoints(n) |-> ScaleDown(src.data[i], RecipF32(scalar))],
            KCall("volk_16i_s32f_convert_32f", <<scalar>>, n))

volk_32i_s32f_convert_32f(src, scalar, n) ==
    Written(src, [i \in 1..NumPoints(n) |-> ScaleDown(src.data[i], RecipF32(scalar))],
            KCall("volk_32i_s32f_convert_32f", <<scalar>>, n))

\* The three float-to-integer kernels multiply by their scalar, round and
\* clip to the range of the integer.
volk_32f_s32f_convert_8i(src, scalar, n) ==
    Written(src, [i \in 1..NumPoints(n) |->
                    Saturate(MulF32(src.data[i], scalar), INT8_MIN, INT8_MAX)],
            KCall("volk_32f_s32f_convert_8i", <<scalar>>, n))

volk_32f_s32f_convert_16i(src, scalar, n) ==
    Written(src, [i \in 1..NumPoints(n) |->
                    Saturate(MulF32(src.data[i], scalar), INT16_MIN, INT16_MAX)],
            KCall("volk_32f_s32f_convert_16i", <<scalar>>, n))

volk_32f_s32f_convert_32i(src, scalar, n) ==
    Written(src, [i \in 1..NumPoints(n) |->
                    Saturate(MulF32(src.data[i], scalar), INT32_MIN, INT32_MAX)],
            KCall("volk_32f_s32f_convert_32i", <<scalar>>, n))

volk_32f_s32f_multiply_32f(src, scalar, n) ==
    Written(src, [i \in 1..NumPoints(n) |-> MulF32(src.data[i], scalar)],
            KCall("volk_32f_s32f_multiply_32f", <<scalar>>, n))

volk_32f_convert_64f(src, n) ==
    Written(src, [i \in 1..NumPoints(n) |-> [src.data[i] EXCEPT !.w = 64]],
            KCall("volk_32f_convert_64f", <<>>, n))

volk_64f_convert_32f(src, n) ==
    Written(src, [i \in 1..NumPoints(n) |-> RoundF32(src.data[i].m, src.data[i].e)],
            KCall("volk_64f_convert_32f", <<>>, n))

\* The complex kernels take a count of complex elements.
volk_16ic_convert_32fc(src, n) ==
    Written(src, [i \in 1..(2 * NumPoints(n)) |-> IntToF32(src.data[i])],
            KCall("volk_16ic_convert_32fc", <<>>, n))

volk_32fc_convert_16ic(src, n) ==
    Written(src, [i \in 1..(2 * NumPoints(n)) |->
                    Saturate(src.data[i], INT16_MIN, INT16_MAX)],
            KCall("volk_32fc_convert_16ic", <<>>, n))

\* (a + bi) * (c + di) = (a*c - b*d) + (a*d + b*c)i; the module only ever
\* passes d = 0, for which the two components are a*c and b*c.
volk_32fc_s32fc_multiply_32fc(src, scalar, n) ==
    Written(src, [i \in 1..(2 * NumPoints(n)) |-> MulF32(src.data[i], scalar.re)],
            KCall("volk_32fc_s32fc_multiply_32fc", <<scalar>>, n))

\* What one converter call did: the elements written to dstBuff, the kernel
\* invocations in order, and the sizes of the volk::vector scratch buffers it
\* allocated (all released when the call returns).
Result(dst, scratch) ==
    [data |-> dst.data, kcalls |-> dst.kcalls, scratch |-> scratch]

(***************************************************************************)
(* SoapySDR: the format names and the converter registry, by their         *)
(* documented contract.                                                    *)
(***************************************************************************)
Formats == {"S8", "S16", "S32", "F32", "F64", "CS8", "CS16", "CS32", "CF32", "CF64"}

IsComplex(format) == format \in {"CS8", "CS16", "CS32", "CF32", "CF64"}

\* The format of one component of a sample.
ScalarType(format) ==
    CASE format \in {"S8", "CS8"} -> "S8"
      [] format \in {"S16", "CS16"} -> "S16"
      [] format \in {"S32", "CS32"} -> "S32"
      [] format \in {"F32", "CF32"} -> "F32"
      [] format \in {"F64", "CF64"} -> "F64"

IsInteger(format) == ScalarType(format) \in {"S8", "S16", "S32"}

\* Components in a buffer of numElems elements.
Components(format, numElems) == IF IsComplex(format) THEN 2 * numElems ELSE numElems

\* ConverterRegistry::FunctionPriority.
GENERIC == 0
VECTORIZED == 3
CUSTOM == 5
Priorities == {GENERIC, VECTORIZED, CUSTOM}

\* One registered function: fn names the code behind the function pointer.
Entry(source, target, priority, fn) ==
    [source |-> source, target |-> target, priority |-> priority, fn |-> fn]

(***************************************************************************)
(* src/unnamed/part_004: the module's converters.                          *)
(***************************************************************************)
\* convertS8ToF64 without the inversion of the scalar.
convertS8ToF64_Uninverted(srcBuff, numElems, scalar) ==
    LET intermediate ==
            volk_8i_s32f_convert_32f(srcBuff, ToFloat(scalar),
                                     UnsignedInt(numElems))
    IN  Result(volk_32f_convert_64f(intermediate, UnsignedInt(numElems)),
               <<numElems>>)

convertS8ToF64(srcBuff, numElems, scalar) ==
    LET intermediate ==
            volk_8i_s32f_convert_32f(srcBuff, ToFloat(Reciprocal(scalar)),
            UnsignedInt(numElems))
    IN  Result(volk_32f_convert_64f(intermediate, UnsignedInt(numElems)),
               <<numElems>>)

convertS16ToF64(srcBuff, numElems, scalar) ==
    LET intermediate ==
            volk_16i_s32f_convert_32f(srcBuff, ToFloat(Reciprocal(scalar)),
            UnsignedInt(numElems))
    IN  Result(volk_32f_convert_64f(intermediate, UnsignedInt(numElems)),
               <<numElems>>)

convertS32ToF64(srcBuff, numElems, scalar) ==
    LET intermediate ==
            volk_32i_s32f_convert_32f(srcBuff, ToFloat(Reciprocal(scalar)),
            UnsignedInt(numElems))
    IN  Result(volk_32f_convert_64f(intermediate, UnsignedInt(numElems)),
               <<numElems>>)

convertF32ToF64(srcBuff, numElems, scalar) ==
    LET scaled == volk_32f_s32f_multiply_32f(srcBuff, ToFloat(scalar),
                                             UnsignedInt(numElems))
    IN  Result(volk_32f_convert_64f(scaled, UnsignedInt(numElems)),
               <<numElems>>)

\* convertF64ToS8 handing the kernel the inverted scalar.
convertF64ToS8_Inverted(srcBuff, numElems, scalar) ==
    LET intermediate == volk_64f_convert_32f(srcBuff, UnsignedInt(numElems))
    IN  Result(volk_32f_s32f_convert_8i(intermediate,
                                        ToFloat(Reciprocal(scalar)),
                                        UnsignedInt(numElems)),
               <<numElems>>)

convertF64ToS8(srcBuff, numElems, scalar) ==
    LET intermediate == volk_64f_convert_32f(srcBuff, UnsignedInt(numElems))
    IN  Result(volk_32f_s32f_convert_8i(intermediate, ToFloat(scalar),
               UnsignedInt(numElems)),
               <<numElems>>)

convertF64ToS16(srcBuff, numElems, scalar) ==
    LET intermediate == volk_64f_convert_32f(srcBuff, UnsignedInt(numElems))
    IN  Result(volk_32f_s32f_convert_16i(intermediate, ToFloat(scalar),
               UnsignedInt(numElems)),
               <<numElems>>)

convertF64ToS32(srcBuff, numElems, scalar) ==
    LET intermediate == volk_64f_convert_32f(srcBuff, UnsignedInt(numElems))
    IN  Result(volk_32f_s32f_convert_32i(intermediate, ToFloat(scalar),
               UnsignedInt(numElems)),
               <<numElems>>)

\* convertF64ToF32 narrowing only, the scalar left out.
convertF64ToF32_Unscaled(srcBuff, numElems, scalar) ==
    Result(volk_64f_convert_32f(srcBuff, UnsignedInt(numElems)), <<numElems>>)

convertF64ToF32(srcBuff, numElems, scalar) ==
    LET unscaled == volk_64f_convert_32f(srcBuff, UnsignedInt(numElems))
    IN  Result(volk_32f_s32f_multiply_32f(unscaled, ToFloat(scalar),
                                          UnsignedInt(numElems)),
               <<numElems>>)

\* registerS8ToS16 taking the scaled way through float32.
registerS8ToS16_Scaled(srcBuff, numElems, scalar) ==
    Result(volk_32f_s32f_convert_16i(
               volk_8i_s32f_convert_32f(srcBuff, ToFloat(Reciprocal(scalar)),
                                        UnsignedInt(numElems)),
               Canon(32, 256, 0), UnsignedInt(numElems)),
           <<>>)

registerS8ToS16(srcBuff, numElems, scalar) ==
    Result(volk_8i_convert_16i(srcBuff, UnsignedInt(numElems)), <<>>)

\* registerS8ToF32 without the inversion of the scalar.
registerS8ToF32_Uninverted(srcBuff, numElems, scalar) ==
    Result(volk_8i_s32f_convert_32f(srcBuff, ToFloat(scalar),
                                    UnsignedInt(numElems)),
           <<>>)

registerS8ToF32(srcBuff, numElems, scalar) ==
    Result(volk_8i_s32f_convert_32f(srcBuff, ToFloat(Reciprocal(scalar)), UnsignedInt(numElems)),
           <<>>)

\* registerS16ToS8 going through float32 with the full scale of an int8:
\* it divides by 2^7 and saturates.
registerS16ToS8_ThroughFloat(srcBuff, numElems, scalar) ==
    Result(volk_32f_s32f_convert_8i(
               volk_16i_s32f_convert_32f(srcBuff, Canon(32, 128, 0),
                                         UnsignedInt(numElems)),
               Canon(32, 1, 0), UnsignedInt(numElems)),
           <<numElems>>)

registerS16ToS8(srcBuff, numElems, scalar) ==
    Result(volk_16i_convert_8i(srcBuff, UnsignedInt(numElems)), <<>>)

registerS16ToF32(srcBuff, numElems, scalar) ==
    Result(volk_16i_s32f_convert_32f(srcBuff, ToFloat(Reciprocal(scalar)), UnsignedInt(numElems)),
           <<>>)

\* registerS32ToF32 without the inversion of the scalar.
registerS32ToF32_Uninverted(srcBuff, numElems, scalar) ==
    Result(volk_32i_s32f_convert_32f(srcBuff, ToFloat(scalar),
                                    UnsignedInt(numElems)),
           <<>>)

registerS32ToF32(srcBuff, numElems, scalar) ==
    Result(volk_32i_s32f_convert_32f(srcBuff, ToFloat(Reciprocal(scalar)), UnsignedInt(numElems)),
           <<>>)

\* registerF32ToS8 with the scalar inverted as on the way to float.
registerF32ToS8_Inverted(srcBuff, numElems, scalar) ==
    Result(volk_32f_s32f_convert_8i(srcBuff, ToFloat(Reciprocal(scalar)),
                                    UnsignedInt(numElems)),
           <<>>)

registerF32ToS8(srcBuff, numElems, scalar) ==
    Result(volk_32f_s32f_convert_8i(srcBuff, ToFloat(scalar), UnsignedInt(numElems)),
           <<>>)

registerF32ToS16(srcBuff, numElems, scalar) ==
    Result(volk_32f_s32f_convert_16i(srcBuff, ToFloat(scalar), UnsignedInt(numElems)),
           <<>>)

registerF32ToS32(srcBuff, numElems, scalar) ==
    Result(volk_32f_s32f_convert_32i(srcBuff, ToFloat(scalar), UnsignedInt(numElems)),
           <<>>)

registerF32ToF32(srcBuff, numElems, scalar) ==
    Result(volk_32f_s32f_multiply_32f(srcBuff, ToFloat(scalar), UnsignedInt(numElems)),
           <<>>)

registerCS8ToCS16(srcBuff, numElems, scalar) ==
    Result(volk_8i_convert_16i(srcBuff, UnsignedInt(Times2(numElems))), <<>>)

registerCS8ToCF32(srcBuff, numElems, scalar) ==
    Result(volk_8i_s32f_convert_32f(srcBuff, ToFloat(Reciprocal(scalar)), UnsignedInt(Times2(numElems))),
           <<>>)

registerCS8ToCF64(srcBuff, numElems, scalar) ==
    convertS8ToF64(srcBuff, Times2(numElems), scalar)

registerCS16ToCS8(srcBuff, numElems, scalar) ==
    Result(volk_16i_convert_8i(srcBuff, UnsignedInt(Times2(numElems))), <<>>)

registerCS16ToCF32(srcBuff, numElems, scalar) ==
    Result(volk_16i_s32f_convert_32f(srcBuff, ToFloat(Reciprocal(scalar)), UnsignedInt(Times2(numElems))),
           <<>>)

\* registerCS16ToCF64 without the doubling of the count.
registerCS16ToCF64_Undoubled(srcBuff, numElems, scalar) ==
    convertS16ToF64(srcBuff, numElems, scalar)

registerCS16ToCF64(srcBuff, numElems, scalar) ==
    convertS16ToF64(srcBuff, Times2(numElems), scalar)

registerCS32ToCF32(srcBuff, numElems, scalar) ==
    Result(volk_32i_s32f_convert_32f(srcBuff, ToFloat(Reciprocal(scalar)), UnsignedInt(Times2(numElems))),
           <<>>)

registerCS32ToCF64(srcBuff, numElems, scalar) ==
    convertS32ToF64(srcBuff, Times2(numElems), scalar)

registerCF32ToCS8(srcBuff, numElems, scalar) ==
    Result(volk_32f_s32f_convert_8i(srcBuff, ToFloat(scalar), UnsignedInt(Times2(numElems))),
           <<>>)

registerCF32ToCS16(srcBuff, numElems, scalar) ==
    Result(volk_32f_s32f_convert_16i(srcBuff, ToFloat(scalar), UnsignedInt(Times2(numElems))),
           <<>>)

registerCF32ToCS32(srcBuff, numElems, scalar) ==
    Result(volk_32f_s32f_convert_32i(srcBuff, ToFloat(scalar), UnsignedInt(Times2(numElems))),
           <<>>)

registerCF32ToCF32(srcBuff, numElems, scalar) ==
    Result(volk_32f_s32f_multiply_32f(srcBuff, ToFloat(scalar), UnsignedInt(Times2(numElems))),
           <<>>)

registerCF32ToCF64(srcBuff, numElems, scalar) ==
    convertF32ToF64(srcBuff, Times2(numElems), scalar)

registerCF64ToCS8(srcBuff, numElems, scalar) ==
    convertF64ToS8(srcBuff, Times2(numElems), scalar)

registerCF64ToCS16(srcBuff, numElems, scalar) ==
    convertF64ToS16(srcBuff, Times2(numElems), scalar)

registerCF64ToCS32(srcBuff, numElems, scalar) ==
    convertF64ToS32(srcBuff, Times2(numElems), scalar)

registerCF64ToF32(srcBuff, numElems, scalar) ==
    convertF64ToF32(srcBuff, Times2(numElems), scalar)

\* Registrations_part_004 without its last registration, CF64 -> CF32.
Registrations_part_004_Short ==
    <<Entry("F64", "F32", VECTORIZED, "convertF64ToF32"),
      Entry("CF32", "CF64", VECTORIZED, "registerCF32ToCF64"),
      Entry("F32", "F64", VECTORIZED, "convertF32ToF64")>>

\* Registrations_part_004 with two functions registered for one pair at
\* one priority.
Registrations_part_004_Twice ==
    <<Entry("S8", "S16", VECTORIZED, "registerS8ToS16"),
      Entry("S8", "S16", VECTORIZED, "registerS8ToF32"),
      Entry("S16", "S8", VECTORIZED, "registerS16ToS8")>>

\* Registrations_part_004 with the converters registered at GENERIC.
Registrations_part_004_Generic ==
    <<Entry("S8", "S16", GENERIC, "registerS8ToS16"),
      Entry("S8", "F32", GENERIC, "registerS8ToF32"),
      Entry("F32", "S8", GENERIC, "registerF32ToS8")>>

\* The static ConverterRegistry objects of part_004, in the order the
\* translation unit defines (and so constructs) them.
Registrations_part_004 ==
    <<Entry("S8", "S16", VECTORIZED, "registerS8ToS16"),
      Entry("S8", "F32", VECTORIZED, "registerS8ToF32"),
      Entry("S8", "F64", VECTORIZED, "convertS8ToF64"),
      Entry("S16", "S8", VECTORIZED, "registerS16ToS8"),
      Entry("S16", "F32", VECTORIZED, "registerS16ToF32"),
      Entry("S16", "F64", VECTORIZED, "convertS16ToF64"),
      Entry("S32", "F32", VECTORIZED, "registerS32ToF32"),
      Entry("S32", "F64", VECTORIZED, "convertS32ToF64"),
      Entry("F32", "S8", VECTORIZED, "registerF32ToS8"),
      Entry("F32", "S16", VECTORIZED, "registerF32ToS16"),
      Entry("F32", "S32", VECTORIZED, "registerF32ToS32"),
      Entry("F32", "F32", VECTORIZED, "registerF32ToF32"),
      Entry("F32", "F64", VECTORIZED, "convertF32ToF64"),
      Entry("F64", "S8", VECTORIZED, "convertF64ToS8"),
      Entry("F64", "S16", VECTORIZED, "convertF64ToS16"),
      Entry("F64", "S32", VECTORIZED, "convertF64ToS32"),
      Entry("F64", "F32", VECTORIZED, "convertF64ToF32"),
      Entry("CS8", "CS16", VECTORIZED, "registerCS8ToCS16"),
      Entry("CS8", "CF32", VECTORIZED, "registerCS8ToCF32"),
      Entry("CS8", "CF64", VECTORIZED, "registerCS8ToCF64"),
      Entry("CS16", "CS8", VECTORIZED, "registerCS16ToCS8"),
      Entry("CS16", "CF32", VECTORIZED, "registerCS16ToCF32"),
      Entry("CS16", "CF64", VECTORIZED, "registerCS16ToCF64"),
      Entry("CS32", "CF32", VECTORIZED, "registerCS32ToCF32"),
      Entry("CS32", "CF64", VECTORIZED, "registerCS32ToCF64"),
      Entry("CF32", "CS8", VECTORIZED, "registerCF32ToCS8"),
      Entry("CF32", "CS16", VECTORIZED, "registerCF32ToCS16"),
      Entry("CF32", "CS32", VECTORIZED, "registerCF32ToCS32"),
      Entry("CF32", "CF32", VECTORIZED, "registerCF32ToCF32"),
      Entry("CF32", "CF64", VECTORIZED, "registerCF32ToCF64"),
      Entry("CF64", "CS8", VECTORIZED, "registerCF64ToCS8"),
      Entry("CF64", "CS16", VECTORIZED, "registerCF64ToCS16"),
      Entry("CF64", "CS32", VECTORIZED, "registerCF64ToCS32"),
      Entry("CF64", "CF32", VECTORIZED, "registerCF64ToF32")>>

\* Calling through the function pointer fn that part_004 registered.
Invoke_part_004(fn, srcBuff, numElems, scalar) ==
    CASE fn = "registerS8ToS16" -> registerS8ToS16(srcBuff, numElems, scalar)
      [] fn = "registerS8ToF32" -> registerS8ToF32(srcBuff, numElems, scalar)
      [] fn = "convertS8ToF64" -> convertS8ToF64(srcBuff, numElems, scalar)
      [] fn = "registerS16ToS8" -> registerS16ToS8(srcBuff, numElems, scalar)
      [] fn = "registerS16ToF32" -> registerS16ToF32(srcBuff, numElems, scalar)
      [] fn = "convertS16ToF64" -> convertS16ToF64(srcBuff, numElems, scalar)
      [] fn = "registerS32ToF32" -> registerS32ToF32(srcBuff, numElems, scalar)
      [] fn = "convertS32ToF64" -> convertS32ToF64(srcBuff, numElems, scalar)
      [] fn = "registerF32ToS8" -> registerF32ToS8(srcBuff, numElems, scalar)
      [] fn = "registerF32ToS16" -> registerF32ToS16(srcBuff, numElems, scalar)
      [] fn = "registerF32ToS32" -> registerF32ToS32(srcBuff, numElems, scalar)
      [] fn = "registerF32ToF32" -> registerF32ToF32(srcBuff, numElems, scalar)
      [] fn = "convertF32ToF64" -> convertF32ToF64(srcBuff, numElems, scalar)
      [] fn = "convertF64ToS8" -> convertF64ToS8(srcBuff, numElems, scalar)
      [] fn = "convertF64ToS16" -> convertF64ToS16(srcBuff, numElems, scalar)
      [] fn = "convertF64ToS32" -> convertF64ToS32(srcBuff, numElems, scalar)
      [] fn = "convertF64ToF32" -> convertF64ToF32(srcBuff, numElems, scalar)
      [] fn = "registerCS8ToCS16" -> registerCS8ToCS16(srcBuff, numElems, scalar)
      [] fn = "registerCS8ToCF32" -> registerCS8ToCF32(srcBuff, numElems, scalar)
      [] fn = "registerCS8ToCF64" -> registerCS8ToCF64(srcBuff, numElems, scalar)
      [] fn = "registerCS16ToCS8" -> registerCS16ToCS8(srcBuff, numElems, scalar)
      [] fn = "registerCS16ToCF32" -> registerCS16ToCF32(srcBuff, numElems, scalar)
      [] fn = "registerCS16ToCF64" -> registerCS16ToCF64(srcBuff, numElems, scalar)
      [] fn = "registerCS32ToCF32" -> registerCS32ToCF32(srcBuff, numElems, scalar)
      [] fn = "registerCS32ToCF64" -> registerCS32ToCF64(srcBuff, numElems, scalar)
      [] fn = "registerCF32ToCS8" -> registerCF32ToCS8(srcBuff, numElems, scalar)
      [] fn = "registerCF32ToCS16" -> registerCF32ToCS16(srcBuff, numElems, scalar)
      [] fn = "registerCF32ToCS32" -> registerCF32ToCS32(srcBuff, numElems, scalar)
      [] fn = "registerCF32ToCF32" -> registerCF32ToCF32(srcBuff, numElems, scalar)
      [] fn = "registerCF32ToCF64" -> registerCF32ToCF64(srcBuff, numElems, scalar)
      [] fn = "registerCF64ToCS8" -> registerCF64ToCS8(srcBuff, numElems, scalar)
      [] fn = "registerCF64ToCS16" -> registerCF64ToCS16(srcBuff, numElems, scalar)
      [] fn = "registerCF64ToCS32" -> registerCF64ToCS32(srcBuff, numElems, scalar)
      [] fn = "registerCF64ToF32" -> registerCF64ToF32(srcBuff, numElems, scalar)

(***************************************************************************)
(* src/SoapyVOLKConverters.cpp: the revision that defines its converters   *)
(* with two macros.  volkFunc names the kernel a macro is expanded with.    *)
(***************************************************************************)
\* The call volkFunc(dstBuff, srcBuff, numElems) in an expansion.
volkFunc2(volkFunc, src, n) ==
    CASE volkFunc = "volk_16ic_convert_32fc" -> volk_16ic_convert_32fc(src, n)
      [] volkFunc = "volk_16i_convert_8i" -> volk_16i_convert_8i(src, n)
      [] volkFunc = "volk_32fc_convert_16ic" -> volk_32fc_convert_16ic(src, n)
      [] volkFunc = "volk_32f_convert_64f" -> volk_32f_convert_64f(src, n)
      [] volkFunc = "volk_64f_convert_32f" -> volk_64f_convert_32f(src, n)
      [] volkFunc = "volk_8i_convert_16i" -> volk_8i_convert_16i(src, n)

\* The call volkFunc(dstBuff, srcBuff, scalar, numElems) in an expansion.
volkFunc3(volkFunc, src, scalar, n) ==
    CASE volkFunc = "volk_16i_s32f_convert_32f" ->
             volk_16i_s32f_convert_32f(src, scalar, n)
      [] volkFunc = "volk_32f_s32f_convert_16i" ->
             volk_32f_s32f_convert_16i(src, scalar, n)
      [] volkFunc = "volk_32f_s32f_convert_32i" ->
             volk_32f_s32f_convert_32i(src, scalar, n)
      [] volkFunc = "volk_32f_s32f_convert_8i" ->
             volk_32f_s32f_convert_8i(src, scalar, n)
      [] volkFunc = "volk_32i_s32f_convert_32f" ->
             volk_32i_s32f_convert_32f(src, scalar, n)
      [] volkFunc = "volk_8i_s32f_convert_32f" ->
             volk_8i_s32f_convert_32f(src, scalar, n)

VOLK_CONVERTER(volkFunc, srcBuff, numElems, scalar) ==
    Result(volkFunc2(volkFunc, srcBuff, UnsignedInt(numElems)), <<>>)

VOLK_CONVERTER_SCALED(volkFunc, srcBuff, numElems, scalar) ==
    Result(volkFunc3(volkFunc, srcBuff, ToFloat(scalar), UnsignedInt(numElems)),
           <<>>)

func_lv_16sc_t_to_lv_32fc_t(srcBuff, numElems, scalar) ==
    VOLK_CONVERTER("volk_16ic_convert_32fc", srcBuff, numElems, scalar)

func_int16_t_to_int8_t(srcBuff, numElems, scalar) ==
    VOLK_CONVERTER("volk_16i_convert_8i", srcBuff, numElems, scalar)

func_int16_t_to_float(srcBuff, numElems, scalar) ==
    VOLK_CONVERTER_SCALED("volk_16i_s32f_convert_32f", srcBuff, numElems, scalar)

func_lv_32fc_t_to_lv_16sc_t(srcBuff, numElems, scalar) ==
    VOLK_CONVERTER("volk_32fc_convert_16ic", srcBuff, numElems, scalar)

func_float_to_double(srcBuff, numElems, scalar) ==
    VOLK_CONVERTER("volk_32f_convert_64f", srcBuff, numElems, scalar)

func_float_to_int16_t(srcBuff, numElems, scalar) ==
    VOLK_CONVERTER_SCALED("volk_32f_s32f_convert_16i", srcBuff, numElems, scalar)

func_float_to_int32_t(srcBuff, numElems, scalar) ==
    VOLK_CONVERTER_SCALED("volk_32f_s32f_convert_32i", srcBuff, numElems, scalar)

func_float_to_int8_t(srcBuff, numElems, scalar) ==
    VOLK_CONVERTER_SCALED("volk_32f_s32f_convert_8i", srcBuff, numElems, scalar)

func_int32_t_to_float(srcBuff, numElems, scalar) ==
    VOLK_CONVERTER_SCALED("volk_32i_s32f_convert_32f", srcBuff, numElems, scalar)

func_double_to_float(srcBuff, numElems, scalar) ==
    VOLK_CONVERTER("volk_64f_convert_32f", srcBuff, numElems, scalar)

func_int8_t_to_int16_t(srcBuff, numElems, scalar) ==
    VOLK_CONVERTER("volk_8i_convert_16i", srcBuff, numElems, scalar)

func_int8_t_to_float(srcBuff, numElems, scalar) ==
    VOLK_CONVERTER_SCALED("volk_8i_s32f_convert_32f", srcBuff, numElems, scalar)

\* Registrations_SoapyVOLKConverters_cpp with a converter registered at
\* CUSTOM.
Registrations_SoapyVOLKConverters_cpp_Custom ==
    <<Entry("S16", "F32", CUSTOM, "func_int16_t_to_float"),
      Entry("F32", "S16", VECTORIZED, "func_float_to_int16_t")>>

\* The static ConverterRegistry objects of src/SoapyVOLKConverters.cpp, in
\* definition order.
Registrations_SoapyVOLKConverters_cpp ==
    <<Entry("CS16", "CF32", VECTORIZED, "func_lv_16sc_t_to_lv_32fc_t"),
      Entry("S16", "S8", VECTORIZED, "func_int16_t_to_int8_t"),
      Entry("S16", "F32", VECTORIZED, "func_int16_t_to_float"),
      Entry("CF32", "CS16", VECTORIZED, "func_lv_32fc_t_to_lv_16sc_t"),
      Entry("F32", "F64", VECTORIZED, "func_float_to_double"),
      Entry("F32", "S16", VECTORIZED, "func_float_to_int16_t"),
      Entry("F32", "S32", VECTORIZED, "func_float_to_int32_t"),
      Entry("F32", "S8", VECTORIZED, "func_float_to_int8_t"),
      Entry("S32", "F32", VECTORIZED, "func_int32_t_to_float"),
      Entry("F64", "F32", VECTORIZED, "func_double_to_float"),
      Entry("S8", "S16", VECTORIZED, "func_int8_t_to_int16_t"),
      Entry("S8", "F32", VECTORIZED, "func_int8_t_to_float")>>

Invoke_SoapyVOLKConverters_cpp(fn, srcBuff, numElems, scalar) ==
    CASE fn = "func_lv_16sc_t_to_lv_32fc_t" -> func_lv_16sc_t_to_lv_32fc_t(srcBuff, numElems, scalar)
      [] fn = "func_int16_t_to_int8_t" -> func_int16_t_to_int8_t(srcBuff, numElems, scalar)
      [] fn = "func_int16_t_to_float" -> func_int16_t_to_float(srcBuff, numElems, scalar)
      [] fn = "func_lv_32fc_t_to_lv_16sc_t" -> func_lv_32fc_t_to_lv_16sc_t(srcBuff, numElems, scalar)
      [] fn = "func_float_to_double" -> func_float_to_double(srcBuff, numElems, scalar)
      [] fn = "func_float_to_int16_t" -> func_float_to_int16_t(srcBuff, numElems, scalar)
      [] fn = "func_float_to_int32_t" -> func_float_to_int32_t(srcBuff, numElems, scalar)
      [] fn = "func_float_to_int8_t" -> func_float_to_int8_t(srcBuff, numElems, scalar)
      [] fn = "func_int32_t_to_float" -> func_int32_t_to_float(srcBuff, numElems, scalar)
      [] fn = "func_double_to_float" -> func_double_to_float(srcBuff, numElems, scalar)
      [] fn = "func_int8_t_to_int16_t" -> func_int8_t_to_int16_t(srcBuff, numElems, scalar)
      [] fn = "func_int8_t_to_float" -> func_int8_t_to_float(srcBuff, numElems, scalar)

(***************************************************************************)
(* src/unnamed/part_005 (second translation unit of the file): the macro   *)
(* revision in which VOLK_CONVERTER_SCALED takes invScalar.  Its names     *)
(* carry the suffix _v2.                                                   *)
(***************************************************************************)
VOLK_CONVERTER_v2(volkFunc, srcBuff, numElems, scalar) ==
    Result(volkFunc2(volkFunc, srcBuff, UnsignedInt(numElems)), <<>>)

VOLK_CONVERTER_SCALED_v2(volkFunc, invScalar, srcBuff, numElems, scalar) ==
    Result(volkFunc3(volkFunc, srcBuff,
                     ToFloat(IF invScalar THEN Reciprocal(scalar) ELSE scalar),
                     UnsignedInt(numElems)),
           <<>>)

\* The static ConverterRegistry objects of the macro revision of part_005.
Registrations_part_005 ==
    <<Entry("CS16", "CF32", VECTORIZED, "func_lv_16sc_t_to_lv_32fc_t_v2"),
      Entry("S16", "S8", VECTORIZED, "func_int16_t_to_int8_t_v2"),
      Entry("CF32", "CS16", VECTORIZED, "func_lv_32fc_t_to_lv_16sc_t_v2"),
      Entry("F32", "F64", VECTORIZED, "func_float_to_double_v2"),
      Entry("F64", "F32", VECTORIZED, "func_double_to_float_v2"),
      Entry("S8", "S16", VECTORIZED, "func_int8_t_to_int16_t_v2"),
      Entry("S16", "F32", VECTORIZED, "func_int16_t_to_float_v2"),
      Entry("F32", "S16", VECTORIZED, "func_float_to_int16_t_v2"),
      Entry("F32", "S32", VECTORIZED, "func_float_to_int32_t_v2"),
      Entry("F32", "S8", VECTORIZED, "func_float_to_int8_t_v2"),
      Entry("S32", "F32", VECTORIZED, "func_int32_t_to_float_v2"),
      Entry("S8", "F32", VECTORIZED, "func_int8_t_to_float_v2")>>

\* The functions the macros of part_005 expand to, by name.
Invoke_part_005(fn, srcBuff, numElems, scalar) ==
    CASE fn = "func_lv_16sc_t_to_lv_32fc_t_v2" ->
             VOLK_CONVERTER_v2("volk_16ic_convert_32fc", srcBuff, numElems, scalar)
      [] fn = "func_int16_t_to_int8_t_v2" ->
             VOLK_CONVERTER_v2("volk_16i_convert_8i", srcBuff, numElems, scalar)
      [] fn = "func_lv_32fc_t_to_lv_16sc_t_v2" ->
             VOLK_CONVERTER_v2("volk_32fc_convert_16ic", srcBuff, numElems, scalar)
      [] fn = "func_float_to_double_v2" ->
             VOLK_CONVERTER_v2("volk_32f_convert_64f", srcBuff, numElems, scalar)
      [] fn = "func_double_to_float_v2" ->
             VOLK_CONVERTER_v2("volk_64f_convert_32f", srcBuff, numElems, scalar)
      [] fn = "func_int8_t_to_int16_t_v2" ->
             VOLK_CONVERTER_v2("volk_8i_convert_16i", srcBuff, numElems, scalar)
      [] fn = "func_int16_t_to_float_v2" ->
             VOLK_CONVERTER_SCALED_v2("volk_16i_s32f_convert_32f", TRUE,
                                      srcBuff, numElems, scalar)
      [] fn = "func_float_to_int16_t_v2" ->
             VOLK_CONVERTER_SCALED_v2("volk_32f_s32f_convert_16i", FALSE,
                                      srcBuff, numElems, scalar)
      [] fn = "func_float_to_int32_t_v2" ->
             VOLK_CONVERTER_SCALED_v2("volk_32f_s32f_convert_32i", FALSE,
                                      srcBuff, numElems, scalar)
      [] fn = "func_float_to_int8_t_v2" ->
             VOLK_CONVERTER_SCALED_v2("volk_32f_s32f_convert_8i", FALSE,
                                      srcBuff, numElems, scalar)
      [] fn = "func_int32_t_to_float_v2" ->
             VOLK_CONVERTER_SCALED_v2("volk_32i_s32f_convert_32f", TRUE,
                                      srcBuff, numElems, scalar)
      [] fn = "func_int8_t_to_float_v2" ->
             VOLK_CONVERTER_SCALED_v2("volk_8i_s32f_convert_32f", TRUE,
                                      srcBuff, numElems, scalar)

(***************************************************************************)
(* src/unnamed/part_000: the revision between the macro revisions and      *)
(* part_004.  Its real-format lambdas (lines 17-298) and its CS8<->CS16    *)
(* lambdas (lines 345-371) are the lambdas of part_004 word for word, the  *)
(* X<->F64 ones with the body that part_004 moved into convertXToF64 and   *)
(* convertF64ToX; its four CS16 converters with CF32 and CF64 are its own. *)
(***************************************************************************)
\* const lv_32fc_t complexScalar(scalar): the real part is the scalar
\* narrowed to float, the imaginary part is zero.
complexScalar(scalar) == [re |-> ToFloat(scalar), im |-> Canon(32, 0, 0)]

convertCS16ToCF32(srcBuff, numElems, scalar) ==
    LET unscaled == volk_16ic_convert_32fc(srcBuff, UnsignedInt(numElems))
    IN  Result(volk_32fc_s32fc_multiply_32fc(unscaled, complexScalar(scalar),
                                             UnsignedInt(numElems)),
               <<numElems>>)

registerCS16ToCF64_p0(srcBuff, numElems, scalar) ==
    LET intermediate == convertCS16ToCF32(srcBuff, numElems, scalar)
    IN  Result(volk_32f_convert_64f(intermediate,
                                    UnsignedInt(Times2(numElems))),
               <<Times2(numElems)>> \o intermediate.scratch)

convertCF32ToCS16(srcBuff, numElems, scalar) ==
    LET scaled == volk_32fc_s32fc_multiply_32fc(srcBuff, complexScalar(scalar),
                                                UnsignedInt(numElems))
    IN  Result(volk_32fc_convert_16ic(scaled, UnsignedInt(numElems)),
               <<numElems>>)

registerCF64toCS16(srcBuff, numElems, scalar) ==
    LET intermediate == volk_64f_convert_32f(srcBuff,
                                             UnsignedInt(Times2(numElems)))
        converted == convertCF32ToCS16(intermediate, numElems, scalar)
    IN  Result(converted, <<Times2(numElems)>> \o converted.scratch)

\* The static ConverterRegistry objects of part_000, in definition order,
\* each with the operator that carries its function's code.
Registrations_part_000 ==
    <<Entry("S8", "S16", VECTORIZED, "registerS8ToS16"),
      Entry("S8", "F32", VECTORIZED, "registerS8ToF32"),
      Entry("S8", "F64", VECTORIZED, "convertS8ToF64"),
      Entry("S16", "S8", VECTORIZED, "registerS16ToS8"),
      Entry("S16", "F32", VECTORIZED, "registerS16ToF32"),
      Entry("S16", "F64", VECTORIZED, "convertS16ToF64"),
      Entry("S32", "F32", VECTORIZED, "registerS32ToF32"),
      Entry("S32", "F64", VECTORIZED, "convertS32ToF64"),
      Entry("F32", "S8", VECTORIZED, "registerF32ToS8"),
      Entry("F32", "S16", VECTORIZED, "registerF32ToS16"),
      Entry("F32", "S32", VECTORIZED, "registerF32ToS32"),
      Entry("F32", "F32", VECTORIZED, "registerF32ToF32"),
      Entry("F32", "F64", VECTORIZED, "convertF32ToF64"),
      Entry("F64", "S8", VECTORIZED, "convertF64ToS8"),
      Entry("F64", "S16", VECTORIZED, "convertF64ToS16"),
      Entry("F64", "S32", VECTORIZED, "convertF64ToS32"),
      Entry("F64", "F32", VECTORIZED, "convertF64ToF32"),
      Entry("CS16", "CF32", VECTORIZED, "convertCS16ToCF32"),
      Entry("CS16", "CF64", VECTORIZED, "registerCS16ToCF64_p0"),
      Entry("CS8", "CS16", VECTORIZED, "registerCS8ToCS16"),
      Entry("CS16", "CS8", VECTORIZED, "registerCS16ToCS8"),
      Entry("CF32", "CS16", VECTORIZED, "convertCF32ToCS16"),
      Entry("CF64", "CS16", VECTORIZED, "registerCF64toCS16")>>

Invoke_part_000(fn, srcBuff, numElems, scalar) ==
    CASE fn = "convertCS16ToCF32" -> convertCS16ToCF32(srcBuff, numElems, scalar)
      [] fn = "registerCS16ToCF64_p0" -> registerCS16ToCF64_p0(srcBuff, numElems, scalar)
      [] fn = "convertCF32ToCS16" -> convertCF32ToCS16(srcBuff, numElems, scalar)
      [] fn = "registerCF64toCS16" -> registerCF64toCS16(srcBuff, numElems, scalar)
      [] OTHER -> Invoke_part_004(fn, srcBuff, numElems, scalar)

(***************************************************************************)
(* The translation units and what each registers.                          *)
(***************************************************************************)
Units == {"part_004", "SoapyVOLKConverters.cpp", "part_005", "part_000"}

Registrations(u) ==
    CASE u = "part_004" -> Registrations_part_004
      [] u = "SoapyVOLKConverters.cpp" -> Registrations_SoapyVOLKConverters_cpp
      [] u = "part_005" -> Registrations_part_005
      [] u = "part_000" -> Registrations_part_000

Invoke(u, fn, srcBuff, numElems, scalar) ==
    CASE u = "part_004" -> Invoke_part_004(fn, srcBuff, numElems, scalar)
      [] u = "SoapyVOLKConverters.cpp" ->
             Invoke_SoapyVOLKConverters_cpp(fn, srcBuff, numElems, scalar)
      [] u = "part_005" -> Invoke_part_005(fn, srcBuff, numElems, scalar)
      [] u = "part_000" -> Invoke_part_000(fn, srcBuff, numElems, scalar)

RECURSIVE SeqToSet(_)
SeqToSet(s) == IF s = <<>> THEN {} ELSE {Head(s)} \cup SeqToSet(Tail(s))

(***************************************************************************)
(* SoapySDR::ConverterRegistry.  reg is the set of registered entries.     *)
(***************************************************************************)
Registered(reg, source, target, priority) ==
    \E e \in reg : e.source = source /\ e.target = target /\ e.priority = priority

\* The constructor: a (source, target, priority) already taken is refused
\* and the registry left as it was.
ConverterRegistry(reg, e) ==
    IF Registered(reg, e.source, e.target, e.priority) THEN reg ELSE reg \cup {e}

RECURSIVE RegisterAll(_, _)
RegisterAll(reg, entries) ==
    IF entries = <<>> THEN reg
    ELSE RegisterAll(ConverterRegistry(reg, Head(entries)), Tail(entries))

listPriorities(reg, source, target) ==
    {e.priority : e \in {x \in reg : x.source = source /\ x.target = target}}

Max(S) == CHOOSE x \in S : \A y \in S : y <= x

NotFound == [found |-> FALSE]

Found(e) == [found |-> TRUE, priority |-> e.priority, fn |-> e.fn]

\* getFunction(source, target, priority): the entry at that priority; it
\* throws when there is none.
getFunctionPriority(reg, source, target, priority) ==
    IF Registered(reg, source, target, priority)
    THEN Found(CHOOSE e \in reg : e.source = source /\ e.target = target
                                  /\ e.priority = priority)
    ELSE NotFound

\* getFunction(source, target): the entry of the highest priority
\* registered for the pair; it throws when the pair has none.
getFunction(reg, source, target) ==
    IF listPriorities(reg, source, target) = {} THEN NotFound
    ELSE getFunctionPriority(reg, source, target,
                             Max(listPriorities(reg, source, target)))

\* The GENERIC converters the host library brings; which pairs it covers is
\* the host's business, so the model tries a host with the S32 -> S8 pair
\* and one without.
HostGenericPairs ==
    { {<<"S8", "S16">>, <<"F32", "F32">>, <<"S32", "S8">>, <<"CS16", "CF32">>},
      {<<"S8", "S16">>, <<"CF32", "CF32">>} }

HostEntries(pairs) == {Entry(p[1], p[2], GENERIC, "generic") : p \in pairs}

(***************************************************************************)
(* Scalars and sample values the model draws its inputs from.              *)
(***************************************************************************)
Pow2(e) == Scalar(1, e, FALSE)

\* TestUtility.hpp: 1.0 / S8FullScale and so on, and their reciprocals.
S8ToF32Scalar == Pow2(-7)
S16ToF32Scalar == Pow2(-15)
S32ToF32Scalar == Pow2(-31)
F32ToS8Scalar == Reciprocal(S8ToF32Scalar)
F32ToS16Scalar == Reciprocal(S16ToF32Scalar)
F32ToS32Scalar == Reciprocal(S32ToF32Scalar)

Unity == Pow2(0)
Ten == Scalar(10, 0, FALSE)

ScalarSet ==
    {S8ToF32Scalar, S16ToF32Scalar, S32ToF32Scalar,
     F32ToS8Scalar, F32ToS16Scalar, F32ToS32Scalar,
     Unity, Ten, Reciprocal(Ten), Scalar(7, 0, FALSE), Scalar(999, 0, FALSE)}

F(m, e) == Canon(32, m, e)
D(m, e) == Canon(64, m, e)

\* Values in the range TestUtility::getRandomValue draws from: [0, 127] for
\* bytes, [0, max] for the other integers, [0, 1) for float and double.
TestValues(type) ==
    CASE type = "S8" -> <<0, 1, 100, 127>>
      [] type = "S16" -> <<0, 255, 256, 32767>>
      [] type = "S32" -> <<0, 1, 16777217, 1073741888, 2147483647>>
      [] type = "F32" -> <<F(0, 0), F(1, -1), F(16777215, -24), F(5033165, -24),
                           F(255, -8), F(4176037, -22)>>
      [] type = "F64" -> <<D(0, 0), D(1, -1), D(16777217, -25), D(5033165, -24),
                           D(225684569, -28)>>

\* Values a caller can pass besides: negative, at and beyond full scale.
AllValues(type) ==
    TestValues(type) \o
    CASE type = "S8" -> <<-128, -1>>
      [] type = "S16" -> <<-32768, -257>>
      [] type = "S32" -> <<-1, -2147483647>>
      [] type = "F32" -> <<F(-3, -2), F(3, -1), F(-3, 30)>>
      [] type = "F64" -> <<D(-1, 0), D(3, 40)>>

\* The buffer of c components that starts at the r-th value of seq and
\* walks on through it, wrapping around.
Window(seq, r, c) == [i \in 1..c |-> seq[((r + i - 2) % Len(seq)) + 1]]

\* TestUtility.hpp, for the integer formats: the absolute difference of two
\* samples, the median of a vector (the element in the middle of the sorted
\* vector, the upper one of two), and the median that averageValues hands to
\* testOutputs for two vectors.
absDiff(num0, num1) == Abs(num0 - num1)

median(inputs) == SortSeq(inputs, LAMBDA a, b : a < b)[(Len(inputs) \div 2) + 1]

averageValues(vec0, vec1) ==
    median([i \in 1..Len(vec0) |-> absDiff(vec0[i], vec1[i])])

\* The calls of testConverterLoopback in main, in order.
Call(type1, type2, scalar) == [type1 |-> type1, type2 |-> type2, scalar |-> scalar]

LoopbackCalls ==
    <<Call("S8", "S16", Unity), Call("S8", "F32", S8ToF32Scalar),
      Call("S8", "F64", S8ToF32Scalar), Call("S16", "S8", Unity),
      Call("S16", "F32", S16ToF32Scalar), Call("S32", "F32", S32ToF32Scalar),
      Call("F32", "S8", F32ToS8Scalar), Call("F32", "S16", F32ToS16Scalar),
      Call("F32", "S32", F32ToS32Scalar), Call("F32", "F32", Ten),
      Call("F32", "F64", Ten), Call("F64", "S8", F32ToS8Scalar),
      Call("F64", "S16", F32ToS16Scalar), Call("F64", "S32", F32ToS32Scalar),
      Call("F64", "F32", Ten),
      Call("CS8", "CS16", Unity), Call("CS8", "CF32", S8ToF32Scalar),
      Call("CS8", "CF64", S8ToF32Scalar), Call("CS16", "CS8", Unity),
      Call("CS16", "CF32", S16ToF32Scalar), Call("CS16", "CF64", S16ToF32Scalar),
      Call("CS32", "CF32", S32ToF32Scalar), Call("CF32", "CS8", F32ToS8Scalar),
      Call("CF32", "CS16", F32ToS16Scalar), Call("CF32", "CS32", F32ToS32Scalar),
      Call("CF32", "CF32", Ten), Call("CF32", "CF64", Ten),
      Call("CF64", "CS8", F32ToS8Scalar), Call("CF64", "CS16", F32ToS16Scalar),
      Call("CF64", "CS32", F32ToS32Scalar), Call("CF64", "CF32", Ten)>>

(***************************************************************************)
(* The process: a host with its GENERIC converters, the module built from  *)
(* one translation unit, and a caller.                                     *)
(***************************************************************************)
VARIABLES
    unit,       \* the translation unit the module was built from
    registry,   \* the entries of the process-wide converter registry
    loaded,     \* whether the module is loaded
    configPath, \* what volk_get_config_path gives on this machine
    log,        \* the messages handed to SoapySDR::log so far
    res,        \* what the caller's last operation gave it
    main,       \* where the loopback test program is, and what it has seen
    threads,    \* the conversion calls in progress, one per thread
    heap        \* the scratch buffers allocated and not yet freed

vars == <<unit, registry, loaded, configPath, log, res, main, threads, heap>>

\* The paths volk_get_config_path may give: none when the machine has no
\* volk_config file.
ConfigPaths == {"", "/home/user/.volk/volk_config"}

\* ModuleInit warning whatever the path is.
ModuleInit_Always(path, logged) ==
    Append(logged,
           [level |-> "SOAPY_SDR_WARNING",
            message |-> "SoapyVOLKConverters: no VOLK config file found. Run volk_profile for best performance."])

\* The constructor of part_004's static ModuleInit object, the only revision
\* that has one: the log after it has run.
ModuleInit(path, logged) ==
    IF path = ""
    THEN Append(logged,
                [level |-> "SOAPY_SDR_WARNING",
                 message |-> "SoapyVOLKConverters: no VOLK config file found. Run volk_profile for best performance."])
    ELSE logged

\* The static initializers of the translation unit that log.
StaticInit(u, path, logged) ==
    IF u = "part_004" THEN ModuleInit(path, logged) ELSE logged

None == [kind |-> "none"]

\* The process before the module is loaded and before main's first
\* statement: the host's registrations made, nothing logged, no call made,
\* no thread inside a converter.
Init ==
    /\ unit \in Units
    /\ registry \in {HostEntries(pairs) : pairs \in HostGenericPairs}
    /\ loaded = FALSE
    /\ configPath \in ConfigPaths
    /\ log = <<>>
    /\ res = None
    /\ main = [pc |-> 0, load |-> "none", returned |-> <<>>,
               differs |-> FALSE, status |-> "running"]
    /\ threads = <<>>
    /\ heap = <<>>

\* LoadModule registering one function that no static object of the module
\* owns, and that no unload removes.
LoadModule_Leaking ==
    /\ res = None
    /\ ~loaded
    /\ Len(log) < MaxLog
    /\ log' = StaticInit(unit, configPath, log)
    /\ registry' =
           RegisterAll(registry, Registrations(unit))
               \cup {Entry("S8", "S16", CUSTOM, "registerS8ToS16")}
    /\ loaded' = TRUE
    /\ UNCHANGED <<unit, configPath, res, main, threads, heap>>

\* LoadModule replacing whatever the registry holds for the module's pairs.
LoadModule_Replacing ==
    /\ res = None
    /\ ~loaded
    /\ Len(log) < MaxLog
    /\ log' = StaticInit(unit, configPath, log)
    /\ registry' =
           RegisterAll(registry, Registrations(unit))
               \ {Entry(e.source, e.target, GENERIC, "generic") :
                      e \in SeqToSet(Registrations(unit))}
    /\ loaded' = TRUE
    /\ UNCHANGED <<unit, configPath, res, main, threads, heap>>

\* Loading the module runs the constructors of its static registry objects.
LoadModule ==
    /\ res = None
    /\ ~loaded
    /\ Len(log) < MaxLog
    /\ log' = StaticInit(unit, configPath, log)
    /\ registry' = RegisterAll(registry, Registrations(unit))
    /\ loaded' = TRUE
    /\ UNCHANGED <<unit, configPath, res, main, threads, heap>>

\* Unloading runs their destructors, each removing the entry it added.
UnloadModule ==
    /\ res = None
    /\ loaded
    /\ registry' = registry \ SeqToSet(Registrations(unit))
    /\ loaded' = FALSE
    /\ UNCHANGED <<unit, configPath, log, res, main, threads, heap>>

\* SoapySDR::ConverterRegistry::getFunction(source, target).
Lookup ==
    /\ res = None
    /\ \E source \in Formats, target \in Formats :
           res' = [kind |-> "lookup", source |-> source, target |-> target,
                   got |-> getFunction(registry, source, target)]
    /\ UNCHANGED <<unit, registry, loaded, configPath, log, main, threads, heap>>

\* SoapySDR::ConverterRegistry::getFunction(source, target, priority).
LookupPriority ==
    /\ res = None
    /\ \E source \in Formats, target \in Formats, priority \in Priorities :
           res' = [kind |-> "lookupPriority", source |-> source,
                   target |-> target, priority |-> priority,
                   got |-> getFunctionPriority(registry, source, target, priority)]
    /\ UNCHANGED <<unit, registry, loaded, configPath, log, main, threads, heap>>

ConvertResult(e, numElems, scalar, srcBuff, call) ==
    [kind |-> "convert", source |-> e.source, target |-> e.target,
     fn |-> e.fn, scalar |-> scalar, numElems |-> numElems,
     srcBuff |-> srcBuff, dstBuff |-> call.data,
     kcalls |-> call.kcalls, scratch |-> call.scratch]

\* The element counts a caller passes: those a buffer of the model can hold,
\* and each of them with 2^32 added.
ElementCounts == {SizeT(h, l) : h \in {0, 2}, l \in 0..MaxLen}

\* What a call of the registered function e gives on the buffer of numElems
\* elements that starts at the r-th sample value.  Of a buffer of more than
\* 2^32 elements the model holds the first numElems - 2^32.
Converted(e, numElems, r, scalar) ==
    LET srcBuff == Window(AllValues(ScalarType(e.source)), r,
                          Components(e.source, numElems.l))
    IN  ConvertResult(e, numElems, scalar, srcBuff,
                      Invoke(unit, e.fn, Buffer(srcBuff), numElems, scalar))

\* Convert registering one more function when it is called.
Convert_Registering ==
    /\ res = None
    /\ \E e \in {x \in registry : x.priority = VECTORIZED},
          numElems \in ElementCounts, scalar \in ScalarSet :
           \E r \in 1..Len(AllValues(ScalarType(e.source))) :
               res' = Converted(e, numElems, r, scalar)
    /\ registry' = registry \cup {Entry("S32", "S8", VECTORIZED, "registerS8ToS16")}
    /\ UNCHANGED <<unit, loaded, configPath, log, main, threads, heap>>

\* A call of a function this module registered.
Convert ==
    /\ res = None
    /\ \E e \in {x \in registry : x.priority = VECTORIZED},
          numElems \in ElementCounts, scalar \in ScalarSet :
           \E r \in 1..Len(AllValues(ScalarType(e.source))) :
               res' = Converted(e, numElems, r, scalar)
    /\ UNCHANGED <<unit, registry, loaded, configPath, log, main, threads, heap>>

LoopbackResult(c, ok, testValues, convertedValues, loopbackValues) ==
    [kind |-> "loopback", type1 |-> c.type1, type2 |-> c.type2,
     scalar |-> c.scalar, ok |-> ok, testValues |-> testValues,
     convertedValues |-> convertedValues, loopbackValues |-> loopbackValues]

\* The second half of testConverterLoopback: the way back with 1.0 / scalar.
LoopbackBack(c, numElements, f21, testValues, convertedValues) ==
    LoopbackResult(c, TRUE, testValues, convertedValues,
                   Invoke(unit, f21.fn, Buffer(convertedValues),
                          SizeT(0, numElements), Reciprocal(c.scalar)).data)

\* The first half: the way out with the scalar.
LoopbackOut(c, numElements, f12, f21, testValues) ==
    LoopbackBack(c, numElements, f21, testValues,
                 Invoke(unit, f12.fn, Buffer(testValues),
                        SizeT(0, numElements), c.scalar).data)

\* Loopback going on to report success after a lookup has failed.
Loopback_Unchecked(c, numElements, r) ==
    LET f12 == getFunctionPriority(registry, c.type1, c.type2, VECTORIZED)
        f21 == getFunctionPriority(registry, c.type2, c.type1, VECTORIZED)
    IN  IF f12.found /\ f21.found
        THEN LoopbackOut(c, numElements, f12, f21,
                         Window(TestValues(ScalarType(c.type1)), r,
                                Components(c.type1, numElements)))
        ELSE LoopbackResult(c, TRUE, <<>>, <<>>, <<>>)

\* What testConverterLoopback(type1, type2, type1ToType2Scalar) of call c
\* finds, with numElements test values starting at the r-th: nothing when
\* either function is missing at priority VECTORIZED.
Loopback(c, numElements, r) ==
    LET f12 == getFunctionPriority(registry, c.type1, c.type2, VECTORIZED)
        f21 == getFunctionPriority(registry, c.type2, c.type1, VECTORIZED)
    IN  IF f12.found /\ f21.found
        THEN LoopbackOut(c, numElements, f12, f21,
                         Window(TestValues(ScalarType(c.type1)), r,
                                Components(c.type1, numElements)))
        ELSE LoopbackResult(c, FALSE, <<>>, <<>>, <<>>)

\* One of main's calls of testConverterLoopback, after loadSoapyVOLK.
testConverterLoopback ==
    /\ res = None
    /\ loaded
    /\ \E i \in 1..Len(LoopbackCalls), numElements \in 1..MaxLen :
           \E r \in 1..Len(TestValues(ScalarType(LoopbackCalls[i].type1))) :
               res' = Loopback(LoopbackCalls[i], numElements, r)
    /\ UNCHANGED <<unit, registry, loaded, configPath, log, main, threads, heap>>

\* The caller is done with what it got.
Return ==
    /\ res # None
    /\ res' = None
    /\ UNCHANGED <<unit, registry, loaded, configPath, log, main, threads, heap>>

Next ==
    \/ LoadModule
    \/ UnloadModule
    \/ Lookup
    \/ LookupPriority
    \/ Convert
    \/ testConverterLoopback
    \/ Return

Spec == Init /\ [][Next]_vars

(***************************************************************************)
(* The loopback test program: main of TestSoapyVOLKConverters.cpp from its *)
(* first statement to its exit.                                            *)
(***************************************************************************)

\* What TestUtility::loadSoapyVOLK returns: false from its catch block,
\* true otherwise.
loadSoapyVOLK(outcome) == outcome # "exception"

\* loadModule with the module's static objects constructed before dlopen
\* fails, and left behind.
loadModule_Partial(outcome, reg) ==
    IF outcome = "exception" THEN reg
    ELSE RegisterAll(reg, Registrations(unit))

\* The registry after SoapySDR::loadModule: the static ConverterRegistry
\* objects of the module are constructed when it is loaded, and only then.
loadModule(outcome, reg) ==
    IF outcome = "loaded" THEN RegisterAll(reg, Registrations(unit)) ELSE reg

\* main's first statement: if (!TestUtility::loadSoapyVOLK()) return
\* EXIT_FAILURE.  Inside the try block of loadSoapyVOLK,
\* SoapySDR::loadModule loads the module; or it cannot (dlopen fails) and
\* returns its error message, which the caller drops; or a std::exception
\* is thrown before the module is loaded.
MainLoad ==
    /\ main.status = "running"
    /\ main.pc = 0
    /\ \E outcome \in {"loaded", "dlopen failed", "exception"} :
           /\ main' = IF loadSoapyVOLK(outcome)
                      THEN [main EXCEPT !.pc = 1, !.load = outcome]
                      ELSE [main EXCEPT !.load = outcome,
                                        !.status = "EXIT_FAILURE"]
           /\ registry' = loadModule(outcome, registry)
           /\ loaded' = (outcome = "loaded")
           /\ log' = IF outcome = "loaded"
                     THEN StaticInit(unit, configPath, log)
                     ELSE log
    /\ UNCHANGED <<unit, configPath, res, threads, heap>>

\* main's next testConverterLoopback call, in the order of the source.  Its
\* return value is dropped (kept here to be looked at), and the next call
\* is due.
MainLoopback ==
    /\ main.status = "running"
    /\ main.pc \in 1..Len(LoopbackCalls)
    /\ \E numElements \in 1..MaxLen :
           \E r \in 1..Len(TestValues(ScalarType(LoopbackCalls[main.pc].type1))) :
               res' = Loopback(LoopbackCalls[main.pc], numElements, r)
    /\ main' = [main EXCEPT
           !.pc = main.pc + 1,
           !.returned = Append(main.returned, res'.ok),
           !.differs = main.differs
                       \/ (res'.ok /\ res'.loopbackValues # res'.testValues)]
    /\ UNCHANGED <<unit, registry, loaded, configPath, log, threads, heap>>

\* main's last statement: return EXIT_SUCCESS.
MainExit ==
    /\ main.status = "running"
    /\ main.pc = Len(LoopbackCalls) + 1
    /\ main' = [main EXCEPT !.status = "EXIT_SUCCESS"]
    /\ UNCHANGED <<unit, registry, loaded, configPath, log, res, threads, heap>>

NextMain ==
    \/ MainLoad
    \/ MainLoopback
    \/ MainExit

SpecMain == Init /\ [][NextMain]_vars

(***************************************************************************)
(* Threads of the host calling convertF32ToF64 and convertF64ToF32 of      *)
(* part_004 at the same time, each on buffers of its own.  A call is       *)
(* followed kernel by kernel: the other threads run in between.            *)
(***************************************************************************)

\* The most threads followed.
MaxThreads == 2

\* Allocate for a scratch buffer that is static: one for all calls.
Allocate_Static(h) == 1

\* The allocator: some address not in use, of one per thread.
Allocate(h) == CHOOSE a \in 1..MaxThreads : ~h[a].live

\* The n floats a kernel reads at address a.  A call's own buffer holds n;
\* what lies beyond the end of a shorter one reads as zero here.
Scratch(h, a, n) ==
    Buffer([i \in 1..NumPoints(n) |->
                IF i \in DOMAIN h[a].data THEN h[a].data[i] ELSE F(0, 0)])

\* What the threads call with: a scalar, where the source values start, and
\* how many elements: one, and the most a buffer of the model holds.
ThreadInputs == {<<Ten, 1, 1>>, <<Reciprocal(Ten), 5, MaxLen>>}

\* A thread inside fn right after the definition of its volk::vector.
Entered(fn, input, scratch) ==
    [pc |-> "first", fn |-> fn, numElems |-> SizeT(0, input[3]),
     scalar |-> input[1],
     srcBuff |-> Window(AllValues(IF fn = "convertF32ToF64"
                                  THEN "F32" ELSE "F64"),
                        input[2], input[3]),
     scratch |-> scratch, dstBuff |-> <<>>]

\* part_004 loaded, every thread outside the converters, nothing allocated.
InitThreads ==
    /\ unit = "part_004"
    /\ registry = RegisterAll({}, Registrations(unit))
    /\ loaded = TRUE
    /\ configPath \in ConfigPaths
    /\ log = StaticInit(unit, configPath, <<>>)
    /\ res = None
    /\ main = [pc |-> 0, load |-> "none", returned |-> <<>>,
               differs |-> FALSE, status |-> "running"]
    /\ threads = [t \in 1..MaxThreads |-> [pc |-> "idle"]]
    /\ heap = [a \in 1..MaxThreads |-> [live |-> FALSE, data |-> <<>>]]

\* Thread t calls one of the two converters: the scratch vector (scaled,
\* unscaled) of numElems value-initialized floats is allocated.
Enter(t) ==
    /\ threads[t].pc = "idle"
    /\ \E fn \in {"convertF32ToF64", "convertF64ToF32"},
          input \in ThreadInputs :
           /\ threads' = [threads EXCEPT
                  ![t] = Entered(fn, input, Allocate(heap))]
           /\ heap' = [heap EXCEPT
                  ![Allocate(heap)] =
                      [live |-> TRUE,
                       data |-> [i \in 1..input[3] |-> F(0, 0)]]]
    /\ UNCHANGED <<unit, registry, loaded, configPath, log, res, main>>

\* The first kernel of the call writes into the scratch vector:
\* volk_32f_s32f_multiply_32f of the source in convertF32ToF64,
\* volk_64f_convert_32f of the source in convertF64ToF32.
First(t) ==
    /\ threads[t].pc = "first"
    /\ heap' = [heap EXCEPT
           ![threads[t].scratch].data =
               IF threads[t].fn = "convertF32ToF64"
               THEN volk_32f_s32f_multiply_32f(
                        Buffer(threads[t].srcBuff),
                        ToFloat(threads[t].scalar),
                        UnsignedInt(threads[t].numElems)).data
               ELSE volk_64f_convert_32f(
                        Buffer(threads[t].srcBuff),
                        UnsignedInt(threads[t].numElems)).data]
    /\ threads' = [threads EXCEPT ![t].pc = "second"]
    /\ UNCHANGED <<unit, registry, loaded, configPath, log, res, main>>

\* The second kernel writes into the destination from the scratch vector:
\* volk_32f_convert_64f in convertF32ToF64, volk_32f_s32f_multiply_32f in
\* convertF64ToF32.
Second(t) ==
    /\ threads[t].pc = "second"
    /\ threads' = [threads EXCEPT
           ![t].pc = "return",
           ![t].dstBuff =
               IF threads[t].fn = "convertF32ToF64"
               THEN volk_32f_convert_64f(
                        Scratch(heap, threads[t].scratch,
                                UnsignedInt(threads[t].numElems)),
                        UnsignedInt(threads[t].numElems)).data
               ELSE volk_32f_s32f_multiply_32f(
                        Scratch(heap, threads[t].scratch,
                                UnsignedInt(threads[t].numElems)),
                        ToFloat(threads[t].scalar),
                        UnsignedInt(threads[t].numElems)).data]
    /\ UNCHANGED <<unit, registry, loaded, configPath, log, res, main, heap>>

\* The call returns: the destructor of the volk::vector frees it.
Leave(t) ==
    /\ threads[t].pc = "return"
    /\ heap' = [heap EXCEPT
           ![threads[t].scratch] = [live |-> FALSE, data |-> <<>>]]
    /\ threads' = [threads EXCEPT ![t].pc = "done"]
    /\ UNCHANGED <<unit, registry, loaded, configPath, log, res, main>>

\* The caller takes the destination buffer and is free to call again.
Join(t) ==
    /\ threads[t].pc = "done"
    /\ threads' = [threads EXCEPT ![t] = [pc |-> "idle"]]
    /\ UNCHANGED <<unit, registry, loaded, configPath, log, res, main, heap>>

NextThreads ==
    \E t \in 1..MaxThreads :
        \/ Enter(t)
        \/ First(t)
        \/ Second(t)
        \/ Leave(t)
        \/ Join(t)

SpecThreads == InitThreads /\ [][NextThreads]_vars

(***************************************************************************)
(* Properties.                                                             *)
(***************************************************************************)
\* A float of precision 32 as a sample of the floating format.
Widened(x, format) ==
    [x EXCEPT !.w = IF ScalarType(format) = "F64" THEN 64 ELSE 32]

\* What an int-to-float kernel writes for the sample v when it is handed
\* 1.0 / scalar.
ScaledToFloat(v, scalar) ==
    ScaleDown(v, RecipF32(ToFloat(Reciprocal(scalar))))

\* A finished call of a registered function from source to target formats
\* whose components are of the types from and to.
ConvertCall(from, to) ==
    /\ res.kind = "convert"
    /\ ScalarType(res.source) \in from
    /\ ScalarType(res.target) \in to

Integers8To32 == {"S8", "S16", "S32"}

Floats == {"F32", "F64"}

\* C1: in the three revisions of the module that the claim cites, every
\* integer-to-floating-point converter (S8, S16, S32 to F32 or F64, real or
\* complex) called with scalar s hands 1.0 / s to the int-to-float kernel,
\* its first kernel, and every output is what that kernel, which divides by
\* its argument, writes for the input: input * s.
C1_IntToFloatHandsReciprocal ==
    (/\ unit \in {"part_004", "SoapyVOLKConverters.cpp", "part_005"}
     /\ ConvertCall(Integers8To32, Floats))
    => /\ res.kcalls # <<>>
       /\ res.kcalls[1].scalar = <<ToFloat(Reciprocal(res.scalar))>>
       /\ \A i \in 1..Len(res.srcBuff) :
              res.dstBuff[i] =
                  Widened(ScaledToFloat(res.srcBuff[i], res.scalar), res.target)

\* C1 in the module as it stands (part_004), where it holds.
C1_IntToFloatHandsReciprocal_part_004 ==
    unit = "part_004" => C1_IntToFloatHandsReciprocal

\* A finished loopback, in the module as it stands, of a call of main whose
\* types have components of the types type1 and type2.
LoopbackDone(type1, type2) ==
    /\ unit = "part_004"
    /\ res.kind = "loopback"
    /\ res.ok
    /\ ScalarType(res.type1) \in type1
    /\ ScalarType(res.type2) \in type2

\* The int8 value v taken S8 -> F32 with 1/128 and back F32 -> S8 with 128
\* through the functions registered at VECTORIZED.
S8ThereAndBack(v) ==
    LET f12 == getFunctionPriority(registry, "S8", "F32", VECTORIZED)
        f21 == getFunctionPriority(registry, "F32", "S8", VECTORIZED)
        convertedValues ==
            Invoke(unit, f12.fn, Buffer(<<v>>), SizeT(0, 1),
                   S8ToF32Scalar).data
    IN  Invoke(unit, f21.fn, Buffer(convertedValues), SizeT(0, 1),
               F32ToS8Scalar).data[1]

\* C2: int8 values of [0, 127] converted S8 -> F32 with scalar 1/128 and
\* back F32 -> S8 with scalar 128, both through the VECTORIZED converters,
\* have a median absolute difference from the originals of at most 1: the
\* test's buffers do, and so does every buffer, because every single value
\* of [0, 127] comes back within 1.
C2_S8LoopbackMedianWithinOne ==
    (LoopbackDone({"S8"}, {"F32"}) /\ res.type1 = "S8")
    => /\ averageValues(res.testValues, res.loopbackValues) <= 1
       /\ \A v \in 0..INT8_MAX : absDiff(v, S8ThereAndBack(v)) <= 1

\* C2's case: the loopback of the buffer <<100, 127>> has been run.
C2_Witness ==
    /\ LoopbackDone({"S8"}, {"F32"})
    /\ res.type1 = "S8"
    /\ res.scalar = S8ToF32Scalar
    /\ res.testValues = <<100, INT8_MAX>>
    /\ Len(res.loopbackValues) = 2

\* The exponent of the float32 unit in the last place of x # 0.
UlpExponent(x) == x.e + BitLen(Abs(x.m)) - FloatBits

\* The least of three exponents.
Least(a, b, c) == IF a <= b /\ a <= c THEN a ELSE IF b <= c THEN b ELSE c

\* |x - y| <= k * 2^p, both in units of 2^e0.
WithinAt(x, y, k, p, e0) ==
    Abs(x.m * (2^(x.e - e0)) - y.m * (2^(y.e - e0))) <= k * (2^(p - e0))

\* |x - y| <= k * 2^p for a test value x of [0, 1) and p <= 0: a y of 2.0 or
\* more is not that near.
FloatWithin(x, y, k, p) ==
    /\ y.m # 0 => y.e + BitLen(Abs(y.m)) <= 1
    /\ WithinAt(x, y, k, p, Least(x.e, y.e, p))

\* Within k float32 units in the last place of x.
WithinUlps(x, y, k) ==
    IF x.m = 0 THEN y.m = 0 ELSE FloatWithin(x, y, k, UlpExponent(x))

\* One quantization step of the narrower format of the pair, 1 integer unit
\* for an integer type1: the tolerance as C3 states it.
WithinOneStep(type1, type2, x, y) ==
    CASE type1 \in Integers8To32 -> absDiff(x, y) <= 1
      [] type2 = "S8" -> FloatWithin(x, y, 1, -7)
      [] type2 = "S16" -> FloatWithin(x, y, 1, -15)
      [] type2 = "S32" -> FloatWithin(x, y, 1, -31)
      [] OTHER -> WithinUlps(x, y, 1)

\* The tolerance the converters keep.  An integer comes back exactly but for
\* the low byte that S16 -> S8 drops (up to 255) and the low bits that a
\* float32 cannot hold of an int32 (up to 64).  A float comes back within
\* one step of S8 or S16, and within two float32 units in the last place
\* through S32 or through another floating format.
WithinFormatStep(type1, type2, x, y) ==
    CASE type1 = "S16" /\ type2 = "S8" -> absDiff(x, y) <= 255
      [] type1 = "S32" -> absDiff(x, y) <= 64
      [] type1 \in Integers8To32 -> x = y
      [] type2 = "S8" -> FloatWithin(x, y, 1, -7)
      [] type2 = "S16" -> FloatWithin(x, y, 1, -15)
      [] OTHER -> WithinUlps(x, y, 2)

WithScalar(scalar) ==
    Invoke(unit, res.fn, Buffer(res.srcBuff), res.numElems, scalar).data

\* C4: the width-remapping converters S8 -> S16, S16 -> S8, CS8 -> CS16 and
\* CS16 -> CS8 write the same destination buffer whatever the scalar: the
\* buffer written with the scalar of the call is the one written with any
\* other scalar, 1.0 and 999.0 among them.
C4_WidthRemapIgnoresScalar ==
    (ConvertCall({"S8"}, {"S16"}) \/ ConvertCall({"S16"}, {"S8"}))
    => \A s2 \in ScalarSet : WithScalar(s2) = res.dstBuff

\* C4's case: CS16 -> CS8 has been called with scalar 999.0 on a buffer
\* that is not empty.
C4_Witness ==
    /\ ConvertCall({"S16"}, {"S8"})
    /\ unit = "part_004"
    /\ res.source = "CS16"
    /\ res.scalar = Scalar(999, 0, FALSE)
    /\ res.dstBuff # <<>>
    /\ Unity \in ScalarSet

\* The registered source -> F32 function with the element count and the
\* scalar of the finished call, followed by the float32 -> float64 kernel.
ChainedThroughF32 ==
    LET direct == getFunctionPriority(registry, ScalarType(res.source), "F32",
                                      VECTORIZED)
    IN  volk_32f_convert_64f(
            Invoke(unit, direct.fn, Buffer(res.srcBuff), res.numElems,
                   res.scalar),
            UnsignedInt(res.numElems))

\* C5: for X in {S8, S16, S32}, every source buffer and every scalar, the
\* registered X -> F64 converter writes exactly the buffer that the
\* registered X -> F32 kernel call (same reciprocal scalar) followed by the
\* float32 -> float64 kernel writes, and it makes those two kernel calls.
C5_ToF64IsToF32ThenWiden ==
    (ConvertCall(Integers8To32, {"F64"}) /\ ~IsComplex(res.source))
    => /\ res.dstBuff = ChainedThroughF32.data
       /\ res.kcalls = ChainedThroughF32.kcalls
       /\ res.scratch = <<res.numElems>>

\* C5's case: S8 -> F64 has been called with a scalar that is not a power
\* of two on a buffer that is not empty.
C5_Witness ==
    /\ ConvertCall({"S8"}, {"F64"})
    /\ res.source = "S8"
    /\ unit = "part_004"
    /\ res.scalar = Scalar(7, 0, FALSE)
    /\ res.numElems = SizeT(0, MaxLen)

\* C6: in the two revisions the claim cites, F32 -> F64 multiplies each
\* sample by the scalar in float32 and then widens, and F64 -> F32 narrows
\* to float32 and then multiplies by the scalar: the scalar is neither
\* ignored nor applied to a float64.
C6_FloatWidthScalesInFloat32 ==
    /\ (/\ unit \in {"part_004", "SoapyVOLKConverters.cpp"}
        /\ ConvertCall({"F32"}, {"F64"}))
       => /\ res.kcalls =
                 <<KCall("volk_32f_s32f_multiply_32f", <<ToFloat(res.scalar)>>,
                         SizeT(0, Len(res.srcBuff))),
                   KCall("volk_32f_convert_64f", <<>>,
                         SizeT(0, Len(res.srcBuff)))>>
          /\ \A i \in 1..Len(res.srcBuff) :
                 res.dstBuff[i] =
                     Widened(MulF32(res.srcBuff[i], ToFloat(res.scalar)), "F64")
    /\ (/\ unit \in {"part_004", "SoapyVOLKConverters.cpp"}
        /\ ConvertCall({"F64"}, {"F32"}))
       => /\ res.kcalls =
                 <<KCall("volk_64f_convert_32f", <<>>,
                         SizeT(0, Len(res.srcBuff))),
                   KCall("volk_32f_s32f_multiply_32f", <<ToFloat(res.scalar)>>,
                         SizeT(0, Len(res.srcBuff)))>>
          /\ \A i \in 1..Len(res.srcBuff) :
                 res.dstBuff[i] =
                     MulF32(RoundF32(res.srcBuff[i].m, res.srcBuff[i].e),
                            ToFloat(res.scalar))

\* C6 in the module as it stands (part_004), where it holds.
C6_FloatWidthScalesInFloat32_part_004 ==
    unit = "part_004" => C6_FloatWidthScalesInFloat32

\* The real format of the components of a complex format.
RealFormat(format) == ScalarType(format)

\* What the real converter of the same component types, as registered by
\* the module, writes from the components of the finished call with the
\* same scalar.
ComponentWise ==
    LET conv == getFunctionPriority(registry, RealFormat(res.source),
                                    RealFormat(res.target), VECTORIZED)
    IN  Invoke(unit, conv.fn, Buffer(res.srcBuff), Times2(res.numElems),
               res.scalar).data

\* C7: in the two revisions the claim cites, a complex converter called
\* with the real scalar s writes for every element (re, im) the element
\* (conv(re, s), conv(im, s)), conv being the real converter of the same
\* component types: the scalar acts as (s, 0) and the components never mix.
C7_ComplexIsComponentWise ==
    (/\ unit \in {"part_004", "part_000"}
     /\ res.kind = "convert"
     /\ IsComplex(res.source))
    => res.dstBuff = ComponentWise

\* C7 in the module as it stands (part_004), where it holds.
C7_ComplexIsComponentWise_part_004 ==
    unit = "part_004" => C7_ComplexIsComponentWise

\* The kernels that count complex elements; the others count components.
ComplexKernels ==
    {"volk_16ic_convert_32fc", "volk_32fc_convert_16ic",
     "volk_32fc_s32fc_multiply_32fc"}

\* C8: a complex converter called with n complex elements hands 2 * n as
\* the element count to every real-valued kernel it calls, those of a
\* chained path included, so that all n real and all n imaginary
\* components are written.
C8_RealKernelsGetDoubledCount ==
    (res.kind = "convert" /\ IsComplex(res.source))
    => /\ \A j \in 1..Len(res.kcalls) :
              res.kcalls[j].k \notin ComplexKernels
              => res.kcalls[j].count = Times2(res.numElems)
       /\ Len(res.dstBuff) = 2 * res.numElems.l

\* C8 for the counts n with 2 * n below 2^32, for which it holds.
C8_RealKernelsGetDoubledCount_Below2To32 ==
    (res.kind = "convert" /\ res.numElems.h = 0)
    => C8_RealKernelsGetDoubledCount

\* The least and the greatest value of an integer format.
Lowest(format) ==
    CASE ScalarType(format) = "S8" -> INT8_MIN
      [] ScalarType(format) = "S16" -> INT16_MIN
      [] ScalarType(format) = "S32" -> INT32_MIN

Highest(format) ==
    CASE ScalarType(format) = "S8" -> INT8_MAX
      [] ScalarType(format) = "S16" -> INT16_MAX
      [] ScalarType(format) = "S32" -> INT32_MAX

\* C9: the converters from F32 to S8, S16 and S32, real and complex, called
\* with scalar s hand s unchanged to the kernel, and every output is
\* input * s rounded to an integer and saturated to the range of the
\* destination format: no output lies outside that range.
C9_FloatToIntHandsScalarAndSaturates ==
    (unit = "part_004" /\ ConvertCall({"F32"}, Integers8To32))
    => /\ Len(res.kcalls) = 1
       /\ res.kcalls[1].scalar = <<ToFloat(res.scalar)>>
       /\ Len(res.dstBuff) = Len(res.srcBuff)
       /\ \A i \in 1..Len(res.srcBuff) :
              /\ res.dstBuff[i] =
                     Saturate(MulF32(res.srcBuff[i], ToFloat(res.scalar)),
                              Lowest(res.target), Highest(res.target))
              /\ res.dstBuff[i] >= Lowest(res.target)
              /\ res.dstBuff[i] <= Highest(res.target)

\* C9's case: F32 -> S8 has been called with scalar 128 on 1.5 and on
\* -3 * 2^30, whose products lie above and below the range of int8.
C9_Witness ==
    /\ ConvertCall({"F32"}, {"S8"})
    /\ unit = "part_004"
    /\ res.scalar = F32ToS8Scalar
    /\ res.srcBuff = <<F(3, -1), F(-3, 30)>>
    /\ res.dstBuff = <<INT8_MAX, INT8_MIN>>

\* The pairs the module registers a function for.
ModulePairs == {<<e.source, e.target>> : e \in SeqToSet(Registrations(unit))}

\* The function the module registers for a pair.
ModuleFunction(source, target) ==
    (CHOOSE e \in SeqToSet(Registrations(unit)) :
         e.source = source /\ e.target = target).fn

\* C10: while the module is loaded, the lookup of a pair without a priority
\* gives the VECTORIZED function when the module registered one for the
\* pair, the host's GENERIC function when it did not and the host has one
\* (S32 -> S8), and nothing only when the pair has no GENERIC entry either.
C10_LookupPrefersVectorized ==
    (loaded /\ res.kind = "lookup")
    => IF <<res.source, res.target>> \in ModulePairs
       THEN /\ res.got.found
            /\ res.got.priority = VECTORIZED
            /\ res.got.fn = ModuleFunction(res.source, res.target)
       ELSE IF Registered(registry, res.source, res.target, GENERIC)
       THEN /\ res.got.found
            /\ res.got.priority = GENERIC
            /\ res.got.fn = "generic"
       ELSE ~res.got.found

\* C10's case: with the module loaded, S32 -> S8, which the module does not
\* register, has been looked up on a host that has a GENERIC function for
\* it.
C10_Witness ==
    /\ loaded
    /\ unit = "part_004"
    /\ res.kind = "lookup"
    /\ res.source = "S32"
    /\ res.target = "S8"
    /\ <<"S32", "S8">> \notin ModulePairs
    /\ res.got.found
    /\ res.got.priority = GENERIC


\* C11: a lookup of (source, target, VECTORIZED) gives the function the
\* module registered for that triple, and fails (NotFound: the exception of
\* getFunction, never a null function) when the module registered nothing
\* for it; a loopback test one of whose two lookups failed has called no
\* converter and has returned false.
C11_ExactLookupOrNotFound ==
    /\ (res.kind = "lookupPriority" /\ res.priority = VECTORIZED)
       => IF loaded /\ <<res.source, res.target>> \in ModulePairs
          THEN res.got = Found(Entry(res.source, res.target, VECTORIZED,
                                     ModuleFunction(res.source, res.target)))
          ELSE res.got = NotFound
    /\ res.kind = "loopback"
       => /\ res.ok <=> /\ <<res.type1, res.type2>> \in ModulePairs
                        /\ <<res.type2, res.type1>> \in ModulePairs
          /\ res.ok => /\ res.convertedValues # <<>>
                       /\ res.loopbackValues # <<>>
          /\ ~res.ok => /\ res.testValues = <<>>
                        /\ res.convertedValues = <<>>
                        /\ res.loopbackValues = <<>>

\* C11's case: a loopback test of a pair the loaded module has no function
\* for in one direction has returned false.
C11_Witness ==
    /\ loaded
    /\ res.kind = "loopback"
    /\ ~res.ok
    /\ \/ getFunctionPriority(registry, res.type1, res.type2, VECTORIZED)
              = NotFound
       \/ getFunctionPriority(registry, res.type2, res.type1, VECTORIZED)
              = NotFound

\* The pairs the module registers are closed under swapping source and
\* target.
ClosedUnderSwap == \A p \in ModulePairs : <<p[2], p[1]>> \in ModulePairs

\* C12: while the module is loaded, the VECTORIZED lookups for (type1, type2)
\* and (type2, type1) both succeed, for every pair main passes to
\* testConverterLoopback, and the pairs the module registers are closed
\* under swapping source and target.
C12_MainPairsRegisteredBothWays ==
    loaded
    => /\ \A i \in 1..Len(LoopbackCalls) :
              LET c == LoopbackCalls[i]
              IN  /\ getFunctionPriority(registry, c.type1, c.type2,
                                         VECTORIZED).found
                  /\ getFunctionPriority(registry, c.type2, c.type1,
                                         VECTORIZED).found
       /\ ClosedUnderSwap

\* C12 in the module as it stands (part_004), where it holds.
C12_MainPairsRegisteredBothWays_part_004 ==
    unit = "part_004" => C12_MainPairsRegisteredBothWays

\* The second half of C12, which holds in every revision.
C12_RegisteredPairsClosedUnderSwap == loaded => ClosedUnderSwap

\* The entries of the registry that the module created: those whose
\* function is one of the module's.
ModuleEntries(reg) == {e \in reg : e.fn # "generic"}

\* C13: every entry the module creates has priority VECTORIZED, in every
\* revision the claim cites and in every state: none is GENERIC or of any
\* other priority.
C13_ModuleRegistersOnlyVectorized ==
    /\ \A e \in SeqToSet(Registrations(unit)) : e.priority = VECTORIZED
    /\ \A e \in ModuleEntries(registry) : e.priority = VECTORIZED
    /\ \A e \in registry : e.priority # GENERIC => e \in ModuleEntries(registry)

\* C13's case: the module is loaded and its entries are in the registry,
\* next to a GENERIC entry of the host for a pair the module registers too.
C13_Witness ==
    /\ loaded
    /\ ModuleEntries(registry) = SeqToSet(Registrations(unit))
    /\ ModuleEntries(registry) # {}
    /\ \E e \in ModuleEntries(registry) :
           Registered(registry, e.source, e.target, GENERIC)

\* The GENERIC entries of a registry.
GenericEntries(reg) == {e \in reg : e.priority = GENERIC}

\* C14: no step, loading and unloading the module included, adds, removes
\* or changes a GENERIC entry, so that the lookup of any pair at GENERIC
\* gives the same result before and after it.
C14_LoadKeepsGenericEntries ==
    [][registry' # registry
       => /\ GenericEntries(registry') = GenericEntries(registry)
          /\ \A source \in Formats, target \in Formats :
                 getFunctionPriority(registry', source, target, GENERIC) =
                     getFunctionPriority(registry, source, target, GENERIC)]_vars

\* C14's case: with the module loaded, the GENERIC function of a pair the
\* module registers a VECTORIZED function for has been looked up and found.
C14_Witness ==
    /\ loaded
    /\ res.kind = "lookupPriority"
    /\ res.priority = GENERIC
    /\ <<res.source, res.target>> \in ModulePairs
    /\ res.got = Found(Entry(res.source, res.target, GENERIC, "generic"))

\* C15: the module's registrations all happen in the load step, so that
\* they are complete whenever a lookup or a conversion can run; while the
\* module stays loaded no step, lookup and conversion included, changes the
\* registry; and the only step that ends this is the unloading of the
\* module, which takes a caller that holds no result.
C15_RegistryFixedWhileLoaded ==
    /\ [](loaded => ModuleEntries(registry) = SeqToSet(Registrations(unit)))
    /\ [](~loaded => ModuleEntries(registry) = {})
    /\ [][/\ registry' # registry => loaded' # loaded
          /\ (loaded /\ ~loaded') => (res = None /\ res' = None)]_vars

\* C15's case: with the module loaded, a registered converter has been
\* called and the registry holds what the load put there.
C15_Witness ==
    /\ loaded
    /\ res.kind = "convert"
    /\ Len(res.dstBuff) > 0
    /\ ModuleEntries(registry) = SeqToSet(Registrations(unit))

\* C16: while the module is not loaded, after an unload as before the first
\* load, the registry holds no entry of the module and the VECTORIZED lookup
\* of every pair the module registers fails; the load adds nothing but what
\* the unload removes, so that load followed by unload gives the registry
\* back as it was.
C16_UnloadRestoresRegistry ==
    /\ [](~loaded
          => /\ ModuleEntries(registry) = {}
             /\ \A p \in ModulePairs :
                    getFunctionPriority(registry, p[1], p[2], VECTORIZED)
                        = NotFound)
    /\ [][/\ (~loaded /\ loaded')
             => registry' \ SeqToSet(Registrations(unit)) = registry
          /\ (loaded /\ ~loaded')
             => registry' = registry \ SeqToSet(Registrations(unit))]_vars

\* C16's case: the module has been loaded (its warning is in the log) and
\* unloaded, and the VECTORIZED lookup of a pair it had registered has
\* failed.
C16_Witness ==
    /\ ~loaded
    /\ log # <<>>
    /\ res.kind = "lookupPriority"
    /\ res.priority = VECTORIZED
    /\ <<res.source, res.target>> \in ModulePairs
    /\ res.got = NotFound

\* The count a kernel should be called with for the finished call: the
\* element count, doubled where a real-valued kernel works on the
\* components of complex elements.
ExpectedCount(k) ==
    IF IsComplex(res.source) /\ k \notin ComplexKernels
    THEN Times2(res.numElems)
    ELSE res.numElems

\* C17: for every element count n of a call, those above 2^32 - 1 included,
\* every kernel call of the converter has the count n (2 * n for a
\* real-valued kernel on complex elements), not a truncated one, and the
\* converter writes that many samples.
C17_CountsReachKernelsWhole ==
    res.kind = "convert"
    => /\ \A j \in 1..Len(res.kcalls) :
              res.kcalls[j].count = ExpectedCount(res.kcalls[j].k)
       /\ SizeT(0, Len(res.dstBuff)) =
              IF IsComplex(res.target) THEN Times2(res.numElems)
              ELSE res.numElems

\* C17 for the counts whose kernel count is below 2^32, for which it holds.
C17_CountsReachKernelsWhole_Below2To32 ==
    (res.kind = "convert" /\ res.numElems.h = 0)
    => C17_CountsReachKernelsWhole

\* x * 2^36 for a positive float32 x below 2^-8 and not below 2^-21: its
\* integer part, and the numerator and the denominator of the rest.
Scaled36(x) ==
    LET k == (-15 - x.e) - 21
    IN  IF k <= 0 THEN [q |-> x.m * (2^(-k)), r |-> 0, den |-> 1]
        ELSE [q |-> x.m \div (2^k), r |-> x.m % (2^k), den |-> 2^k]

\* lo + 0.523264 <= y <= hi + 0.476736 for y = y.q + y.r / y.den.
Between(y, lo, hi) ==
    /\ y.q > lo \/ (y.q = lo /\ y.r * 1000000 >= 523264 * y.den)
    /\ y.q < hi \/ (y.q = hi /\ y.r * 1000000 <= 476736 * y.den)

\* |x - v / 32768| <= 1e-6 for a float32 x >= 0 and an integer v of [0, 50].
\* v / 32768 is below 2^-9 and is 0 or at least 2^-15; 1e-6 * 2^36 is
\* 68719.476736.
NearMillionth(x, v) ==
    IF x.m = 0 THEN v = 0
    ELSE IF x.e + BitLen(x.m) > -8 THEN FALSE
    ELSE IF x.e + BitLen(x.m) < -20 THEN v = 0
    ELSE Between(Scaled36(x), v * 2097152 - 68720, v * 2097152 + 68719)

\* |x - v / 32768| <= 1e-6 for a float32 x and an integer v of [0, 50].
WithinMillionth(x, v) ==
    IF x.m < 0 THEN v = 0 /\ NearMillionth(Neg(x), 0) ELSE NearMillionth(x, v)

\* What the VECTORIZED S16 -> F32 converter of the module makes of the
\* sample v with the scalar 1/32768.
S16ToF32Output(v) ==
    LET f == getFunctionPriority(registry, "S16", "F32", VECTORIZED)
    IN  Invoke(unit, f.fn, Buffer(<<v>>), SizeT(0, 1), S16ToF32Scalar).data[1]

\* C19: int16 samples of [0, 50] converted to float32 by the VECTORIZED
\* S16 -> F32 converter with the scalar 1/32768 come out within 1e-6 of
\* input / 32768, every one of them: each element of the finished call, and
\* each value of [0, 50] that a buffer of 1024 random samples may hold.
C19_S16ToF32WithinMillionth ==
    (/\ res.kind = "convert"
     /\ res.source = "S16"
     /\ res.target = "F32"
     /\ res.scalar = S16ToF32Scalar
     /\ res.numElems.h = 0)
    => /\ \A i \in 1..Len(res.srcBuff) :
              res.srcBuff[i] \in 0..50
              => WithinMillionth(res.dstBuff[i], res.srcBuff[i])
       /\ \A v \in 0..50 : WithinMillionth(S16ToF32Output(v), v)

\* C19 in the module as it stands (part_004), where it holds.
C19_S16ToF32WithinMillionth_part_004 ==
    unit = "part_004" => C19_S16ToF32WithinMillionth

\* The log after one more warning.
OneMoreWarning(before, after) ==
    /\ Len(after) = Len(before) + 1
    /\ SubSeq(after, 1, Len(before)) = before
    /\ after[Len(after)].level = "SOAPY_SDR_WARNING"

\* C20: a load of the module (part_004) logs one warning when
\* volk_get_config_path gives an empty path and nothing when it gives a
\* path; either way the module ends up loaded with the same converters
\* registered; and no other step logs anything.
C20_WarningOnlyWithoutConfig ==
    /\ [][IF unit = "part_004" /\ ~loaded /\ loaded'
          THEN /\ IF configPath = "" THEN OneMoreWarning(log, log')
                  ELSE log' = log
               /\ registry' = RegisterAll(registry, Registrations(unit))
          ELSE log' = log]_vars
    /\ [](loaded => ModuleEntries(registry) = SeqToSet(Registrations(unit)))

\* C20's case: the module has been loaded on a machine without a config
\* file: the warning is in the log and the converters are registered.
C20_Witness ==
    /\ unit = "part_004"
    /\ loaded
    /\ configPath = ""
    /\ Len(log) = 1
    /\ log[1].level = "SOAPY_SDR_WARNING"
    /\ ModuleEntries(registry) = SeqToSet(Registrations_part_004)

\* The source of the finished call narrowed to float32, sample by sample,
\* with no scalar.
NarrowedSource ==
    [i \in 1..Len(res.srcBuff) |->
        RoundF32(res.srcBuff[i].m, res.srcBuff[i].e)]

\* The registered F32 -> target function on the narrowed source, with the
\* element count and the scalar of the finished call.
NarrowedThenConverted ==
    LET direct == getFunctionPriority(registry, "F32", res.target, VECTORIZED)
    IN  Invoke(unit, direct.fn, Buffer(NarrowedSource), res.numElems,
               res.scalar)

\* C22: for Y in {S8, S16, S32}, the F64 -> Y converter first calls the
\* float64 -> float32 kernel, with no scalar, on the whole source and then
\* the float32 -> Y kernel with static_cast<float>(scalar), the scalar not
\* inverted; what it writes is what the registered F32 -> Y converter
\* writes from the narrowed source.
C22_FromF64IsNarrowThenFromF32 ==
    (ConvertCall({"F64"}, Integers8To32) /\ ~IsComplex(res.source))
    => /\ Len(res.kcalls) = 2
       /\ res.kcalls[1] =
              KCall("volk_64f_convert_32f", <<>>, UnsignedInt(res.numElems))
       /\ res.kcalls[2] = NarrowedThenConverted.kcalls[1]
       /\ res.kcalls[2].scalar = <<ToFloat(res.scalar)>>
       /\ res.dstBuff = NarrowedThenConverted.data

\* C22's case: F64 -> S8 has been called with the scalar 128 on a buffer
\* that holds a float64 which is no float32.
C22_Witness ==
    /\ ConvertCall({"F64"}, {"S8"})
    /\ res.source = "F64"
    /\ unit = "part_004"
    /\ res.scalar = F32ToS8Scalar
    /\ res.numElems = SizeT(0, MaxLen)
    /\ \E i \in 1..Len(res.srcBuff) :
           /\ NarrowedSource[i].m # res.srcBuff[i].m
           /\ res.dstBuff[i] # 0

\* What the registered function from source to target writes from the
\* buffer src with the element count and the scalar of the finished call.
Registered32(source, target, src) ==
    LET f == getFunctionPriority(registry, source, target, VECTORIZED)
    IN  Invoke(unit, f.fn, Buffer(src), res.numElems, res.scalar).data

\* C23: what CS16 -> CF64 writes is what CS16 -> CF32 writes with the same
\* scalar, each component widened to float64; what CF64 -> CS16 writes is
\* what CF32 -> CS16 writes from the source narrowed to float32 component by
\* component; and either way the float32 intermediate is allocated for
\* 2 * n components.
C23_CS16AndCF64GoThroughCF32 ==
    /\ (res.kind = "convert" /\ res.source = "CS16" /\ res.target = "CF64")
       => /\ res.dstBuff =
                 [i \in 1..Len(res.dstBuff) |->
                     Widened(Registered32("CS16", "CF32", res.srcBuff)[i],
                             "CF64")]
          /\ Len(res.dstBuff) = Len(Registered32("CS16", "CF32", res.srcBuff))
          /\ Times2(res.numElems) \in SeqToSet(res.scratch)
    /\ (res.kind = "convert" /\ res.source = "CF64" /\ res.target = "CS16")
       => /\ res.dstBuff = Registered32("CF32", "CS16", NarrowedSource)
          /\ Times2(res.numElems) \in SeqToSet(res.scratch)

\* C23's case: CS16 -> CF64 has been called in the module as it stands with
\* a scalar that is no power of two, on MaxLen elements.
C23_Witness ==
    /\ unit = "part_004"
    /\ res.kind = "convert"
    /\ res.source = "CS16"
    /\ res.target = "CF64"
    /\ res.scalar = Scalar(7, 0, FALSE)
    /\ res.numElems = SizeT(0, MaxLen)
    /\ Len(res.dstBuff) = 2 * MaxLen
    /\ \E i \in 1..Len(res.dstBuff) : res.dstBuff[i].m # 0

\* The scratch buffer a chained call should allocate: one, of as many
\* elements of the intermediate type as the first kernel writes.
ExpectedScratch == <<ExpectedCount(res.kcalls[1].k)>>

\* C24: a converter that chains two kernels allocates exactly one scratch
\* buffer in a call, of n elements of the intermediate type (2 * n where
\* real-valued kernels work on complex elements), and a converter of one
\* kernel allocates none.  A scratch buffer is a local volk::vector of the
\* call: the result of a call holds every allocation the call made, and
\* no state outlives the call.
C24_OneScratchPerChainedCall ==
    res.kind = "convert"
    => IF Len(res.kcalls) >= 2
       THEN res.scratch = ExpectedScratch
       ELSE res.scratch = <<>>

\* C24 in the module as it stands (part_004), where it holds.
C24_OneScratchPerChainedCall_part_004 ==
    unit = "part_004" => C24_OneScratchPerChainedCall

\* A sequence back to front, and a sequence started k places further on.
Reversed(seq) == [i \in 1..Len(seq) |-> seq[Len(seq) + 1 - i]]

Rotated(seq, k) == [i \in 1..Len(seq) |-> seq[((i + k - 1) % Len(seq)) + 1]]

\* Orders the module's Register calls could run in: the order of the
\* translation unit, its reverse, and two rotations of each.
Orders(seq) ==
    {seq, Reversed(seq), Rotated(seq, 1), Rotated(seq, Len(seq) \div 2),
     Rotated(Reversed(seq), 1), Rotated(Reversed(seq), Len(seq) \div 2)}

\* The entries of a set registered one after the other, in some order.
RECURSIVE RegisterSet(_, _)
RegisterSet(reg, entries) ==
    IF entries = {} THEN reg
    ELSE LET e == CHOOSE x \in entries : TRUE
         IN  RegisterSet(ConverterRegistry(reg, e), entries \ {e})

\* The registry built anew, the module's entries registered in the given
\* order, before or after the host's GENERIC entries.
Rebuilt(order, hostFirst) ==
    IF hostFirst
    THEN RegisterAll(RegisterSet({}, GenericEntries(registry)), order)
    ELSE RegisterSet(RegisterAll({}, order), GenericEntries(registry))

\* Every lookup gives the same in two registries.
SameLookups(reg1, reg2) ==
    \A source \in Formats, target \in Formats :
        /\ getFunction(reg1, source, target) = getFunction(reg2, source, target)
        /\ \A priority \in Priorities :
               getFunctionPriority(reg1, source, target, priority) =
                   getFunctionPriority(reg2, source, target, priority)

\* C26: with the module loaded, every lookup, at a given priority or for
\* the best available, gives what it would give had the module's Register
\* calls run in another order, before or after the host's GENERIC
\* registrations: the result depends on the entries, not on their order.
C26_LookupIgnoresRegistrationOrder ==
    (loaded /\ res = None)
    => \A order \in Orders(Registrations(unit)), hostFirst \in BOOLEAN :
           SameLookups(registry, Rebuilt(order, hostFirst))

\* C26's case: the module is loaded next to a host GENERIC entry for one of
\* its pairs, and the registry built in reverse order, the module's entries
\* first, is the one the load built.
C26_Witness ==
    /\ loaded
    /\ res = None
    /\ Reversed(Registrations(unit)) # Registrations(unit)
    /\ Rebuilt(Reversed(Registrations(unit)), FALSE) = registry
    /\ \E e \in ModuleEntries(registry) :
           Registered(registry, e.source, e.target, GENERIC)

\* The kernels that change the width of a float.
WidthKernels == {"volk_32f_convert_64f", "volk_64f_convert_32f"}

\* A finished call, in the module as it stands, of the converter between
\* the two floating formats from source to target.
FloatWidthCall(source, target) ==
    /\ unit = "part_004"
    /\ res.kind = "convert"
    /\ ScalarType(res.source) = source
    /\ ScalarType(res.target) = target

\* C27 as stated: both float-to-float converters with a change of width
\* multiply by the scalar first and convert the width afterwards, the
\* narrowing F64 -> F32 as well as the widening F32 -> F64.
C27_BothMultiplyFirst ==
    (FloatWidthCall("F64", "F32") \/ FloatWidthCall("F32", "F64"))
    => /\ Len(res.kcalls) = 2
       /\ res.kcalls[1].k = "volk_32f_s32f_multiply_32f"
       /\ res.kcalls[2].k \in WidthKernels

\* C27 as the code has it: the widening F32 -> F64 multiplies by the scalar
\* first and then widens; the narrowing F64 -> F32 narrows first and
\* multiplies the float32 by the scalar afterwards.  Either way the product
\* is a float32 product with static_cast<float>(scalar).
C27_WideningMultipliesFirstNarrowingLast ==
    /\ FloatWidthCall("F32", "F64")
       => /\ Len(res.kcalls) = 2
          /\ res.kcalls[1].k = "volk_32f_s32f_multiply_32f"
          /\ res.kcalls[1].scalar = <<ToFloat(res.scalar)>>
          /\ res.kcalls[2].k = "volk_32f_convert_64f"
          /\ res.dstBuff =
                 [i \in 1..Len(res.srcBuff) |->
                     Widened(MulF32(res.srcBuff[i], ToFloat(res.scalar)),
                             "F64")]
    /\ FloatWidthCall("F64", "F32")
       => /\ Len(res.kcalls) = 2
          /\ res.kcalls[1].k = "volk_64f_convert_32f"
          /\ res.kcalls[2].k = "volk_32f_s32f_multiply_32f"
          /\ res.kcalls[2].scalar = <<ToFloat(res.scalar)>>
          /\ res.dstBuff =
                 [i \in 1..Len(res.srcBuff) |->
                     MulF32(NarrowedSource[i], ToFloat(res.scalar))]

\* C27's case: F64 -> F32 has been called with the scalar 10 on a buffer
\* that holds a float64 which is no float32.
C27_Witness ==
    /\ FloatWidthCall("F64", "F32")
    /\ res.source = "F64"
    /\ res.scalar = Ten
    /\ \E i \in 1..Len(res.srcBuff) :
           /\ NarrowedSource[i].m # res.srcBuff[i].m
           /\ res.dstBuff[i].m # 0

\* The buffer src taken back from the target format of the finished call to
\* its source format, by the function registered for that, with scalar.
TakenBack(src, scalar) ==
    LET back == getFunctionPriority(registry, res.target, res.source,
                                    VECTORIZED)
    IN  Invoke(unit, back.fn, Buffer(src), res.numElems, scalar).data

\* The int8 value v taken S8 -> S16 with the scalar of the finished call
\* and back S16 -> S8 with scalar, through the registered functions.
S8ToS16AndBack(v, scalar) ==
    LET there == getFunctionPriority(registry, "S8", "S16", VECTORIZED)
        back == getFunctionPriority(registry, "S16", "S8", VECTORIZED)
        widened ==
            Invoke(unit, there.fn, Buffer(<<v>>), SizeT(0, 1), res.scalar).data
    IN  Invoke(unit, back.fn, Buffer(widened), SizeT(0, 1), scalar).data[1]

\* C28: S8 -> S16 followed by S16 -> S8 (CS8 -> CS16 followed by
\* CS16 -> CS8, component by component) gives back every int8 value
\* exactly, whatever the two scalars: the widening writes v * 2^8, which is
\* an int16 for every int8 v, and the narrowing undoes it.
C28_S8ToS16AndBackIsExact ==
    ConvertCall({"S8"}, {"S16"})
    => /\ \A i \in 1..Len(res.dstBuff) :
              /\ res.dstBuff[i] = res.srcBuff[i] * (2^8)
              /\ res.dstBuff[i] \in INT16_MIN..INT16_MAX
       /\ \A scalar \in ScalarSet :
              /\ TakenBack(res.dstBuff, scalar) = res.srcBuff
              /\ res.numElems = SizeT(0, 0)
                 => \A v \in INT8_MIN..INT8_MAX :
                        S8ToS16AndBack(v, scalar) = v

\* C28's case: CS8 -> CS16 has been called with the scalar 999 on a buffer
\* that holds -128, the int8 whose widening is the least int16.
C28_Witness ==
    /\ ConvertCall({"S8"}, {"S16"})
    /\ unit = "part_004"
    /\ res.source = "CS8"
    /\ res.scalar = Scalar(999, 0, FALSE)
    /\ \E i \in 1..Len(res.srcBuff) :
           /\ res.srcBuff[i] = INT8_MIN
           /\ res.dstBuff[i] = INT16_MIN
    /\ TakenBack(res.dstBuff, Ten) = res.srcBuff

\* The complex format whose components have the real format.
ComplexOf(format) ==
    CHOOSE c \in Formats : IsComplex(c) /\ ScalarType(c) = format

\* C29: part_004, the revision with the complex converters, registers a
\* real pair exactly when it registers the complex pair of the same
\* component types, makes no two registrations of one (source, target) pair,
\* and registers no pair of a real with a complex format; once loaded, the
\* registry holds the module's entries so.
C29_RealAndComplexTablesAgree ==
    LET pairs == ModulePairs
        real == {p \in pairs : ~IsComplex(p[1]) /\ ~IsComplex(p[2])}
        complex == {p \in pairs : IsComplex(p[1]) /\ IsComplex(p[2])}
    IN  unit = "part_004"
        => /\ {<<ComplexOf(p[1]), ComplexOf(p[2])>> : p \in real} = complex
           /\ Cardinality(pairs) = Len(Registrations(unit))
           /\ pairs = real \cup complex
           /\ loaded
              => /\ Cardinality(ModuleEntries(registry)) = Cardinality(pairs)
                 /\ {<<e.source, e.target>> : e \in ModuleEntries(registry)}
                    = pairs

\* C29's case: part_004 is loaded; S16 -> F64 and CS16 -> CF64 are both
\* registered, S32 -> S8 and CS32 -> CS8 are both missing.
C29_Witness ==
    /\ loaded
    /\ unit = "part_004"
    /\ Registered(registry, "S16", "F64", VECTORIZED)
    /\ Registered(registry, "CS16", "CF64", VECTORIZED)
    /\ ~Registered(registry, "S32", "S8", VECTORIZED)
    /\ ~Registered(registry, "CS32", "CS8", VECTORIZED)

\* The test program has been through loadSoapyVOLK and the module is not
\* loaded.
LoadFailed == main.load \in {"dlopen failed", "exception"}

Exited == main.status # "running"

\* What holds of every run that got past loadSoapyVOLK: the calls are made
\* one after the other down the list, whatever each returned, and main
\* leaves with EXIT_SUCCESS after the last and not before.
RunsEveryCall ==
    /\ Len(main.returned) = (IF main.pc = 0 THEN 0 ELSE main.pc - 1)
    /\ (Exited /\ loadSoapyVOLK(main.load))
       => /\ main.status = "EXIT_SUCCESS"
          /\ Len(main.returned) = Len(LoopbackCalls)

\* C30: the test program leaves with EXIT_FAILURE exactly when the module
\* failed to load; once it is loaded every testConverterLoopback call is
\* made, in order, and the program leaves with EXIT_SUCCESS whatever the
\* calls returned.
C30_ExitFailureIffLoadFails ==
    /\ Exited => (main.status = "EXIT_FAILURE" <=> LoadFailed)
    /\ RunsEveryCall

\* What the program does instead: it leaves with EXIT_FAILURE exactly when
\* loadSoapyVOLK caught an exception; a module that dlopen could not load
\* is not noticed.
C30_ExitFailureIffLoadThrows ==
    /\ Exited => (main.status = "EXIT_FAILURE" <=> main.load = "exception")
    /\ RunsEveryCall

\* A run of a loaded module that left with EXIT_SUCCESS although a call
\* returned false and another gave back values that differ from its input.
C30_SuccessWhateverTheCallsReturn ==
    /\ main.status = "EXIT_SUCCESS"
    /\ loaded
    /\ \E i \in 1..Len(main.returned) : ~main.returned[i]
    /\ main.differs

\* The call of thread t has written its destination buffer.
Finished(t) == threads[t].pc \in {"return", "done"}

\* The scratch vector of thread t is allocated.
HoldsScratch(t) == threads[t].pc \in {"first", "second", "return"}

\* What the call of thread t gives when nothing else runs.
Alone(t) ==
    Invoke(unit, threads[t].fn, Buffer(threads[t].srcBuff),
           threads[t].numElems, threads[t].scalar).data

\* C25: however the kernels of concurrent calls of convertF32ToF64 and
\* convertF64ToF32 interleave, each call that has finished has written the
\* destination buffer it writes when run alone, and no two calls in
\* progress hold the same scratch vector.
C25_ConcurrentCallsMatchSolo ==
    /\ \A t \in 1..MaxThreads : Finished(t) => threads[t].dstBuff = Alone(t)
    /\ \A t \in 1..MaxThreads, u \in 1..MaxThreads :
           (t # u /\ HoldsScratch(t) /\ HoldsScratch(u))
           => threads[t].scratch # threads[u].scratch

\* C25's case: thread 1 has finished convertF32ToF64 while thread 2 is
\* inside convertF64ToF32 between its two kernels, its scratch vector
\* written and not yet read.
C25_Witness ==
    /\ threads[1].pc = "return"
    /\ threads[1].fn = "convertF32ToF64"
    /\ threads[1].dstBuff = Alone(1)
    /\ threads[2].pc = "second"
    /\ threads[2].fn = "convertF64ToF32"
    /\ heap[threads[1].scratch].live
    /\ heap[threads[2].scratch].live
    /\ heap[threads[2].scratch].data # heap[threads[1].scratch].data
=============================================================================
